---- MODULE Spec2Model ----
(***************************************************************************)
(* MiniRust compiler: lexer, parser, semantic analyzer, IR generator and   *)
(* the pipeline driver of the compiler application, as state machines.     *)
(*                                                                         *)
(* JavaScript strings that the program only builds and compares are TLA+   *)
(* strings built with \o; a source text is the sequence of its characters  *)
(* (one-character strings), read by index as the lexer does.               *)
(***************************************************************************)
EXTENDS Integers, Sequences, FiniteSets, TLC

VARIABLES
    lexer,      \* the MiniRustLexer object: source, position, line, column, tokens, errors
    lexPc,      \* position of a tokenize call: "idle", "scan", "returned"
    analyzer,   \* the MiniRustSemanticAnalyzer object
    semIn,      \* input of the analyze calls: ast, checkOwnership
    semOut,     \* what the analyze calls returned, in call order
    irgen,      \* the MiniRustIRGenerator object
    irIn,       \* input of the generate calls: ast
    irOut,      \* what the generate calls returned, in call order
    parser,     \* the MiniRustParser object
    app,        \* the MiniRustCompilerApp object: currentSourceCode, compilationResults
    stagesRun   \* history: the stages the compile call entered since the results were
                \* last cleared, each with the number of error diagnostics it returned

vars == <<lexer, lexPc, analyzer, semIn, semOut, irgen, irIn, irOut, parser, app, stagesRun>>

----------------------------------------------------------------------------
(* Bounds of the model *)

MaxFrags == 3       \* a lexer input is at most this many fragments long
MaxBodyLen == 3     \* statements in a generated function body / program
MaxCalls == 2       \* analyze / generate / compile calls on one instance
MaxIRBody == 2      \* statements in the function body given to the IR generator
MaxNest == 2        \* if / while statements around one statement of that body
MaxAppFrags == 2    \* a source text given to the application is at most this many fragments

----------------------------------------------------------------------------
(* Generic helpers *)

Null == "null"                  \* JavaScript null / undefined
NoError == "<no exception>"     \* marks a call that returned normally

RECURSIVE Flatten(_)
Flatten(ss) == IF ss = <<>> THEN <<>> ELSE Head(ss) \o Flatten(Tail(ss))

SeqsUpTo(S, n) == UNION {[1..k -> S] : k \in 0..n}

\* body, with x computed first. TLC computes an operator's argument only when
\* the operator first reads it; a loop that hands a state from step to step
\* would otherwise be computed as one nested expression, last step outermost.
After(x, body) == IF x = x THEN body ELSE body

----------------------------------------------------------------------------
(* MiniRustLexer *)

NUL == "\\0"    \* what current() and peek() return past the end of the source

Letters == {"a","b","c","d","e","f","g","h","i","j","k","l","m",
            "n","o","p","q","r","s","t","u","v","w","x","y","z",
            "A","B","C","D","E","F","G","H","I","J","K","L","M",
            "N","O","P","Q","R","S","T","U","V","W","X","Y","Z"}
Digits == {"0","1","2","3","4","5","6","7","8","9"}

keywords == {"fn", "let", "mut", "if", "else", "while", "for", "loop",
             "break", "continue", "return", "true", "false", "print"}

types == {"i32", "f64", "bool", "str"}

operators == [x \in {"+", "-", "*", "/", "%", "=", "==", "!=", "<", "<=", ">", ">=",
                     "&&", "||", "!", "&", "&mut"} |->
    CASE x = "+" -> "PLUS" [] x = "-" -> "MINUS" [] x = "*" -> "MULTIPLY"
      [] x = "/" -> "DIVIDE" [] x = "%" -> "MODULO" [] x = "=" -> "ASSIGN"
      [] x = "==" -> "EQUAL" [] x = "!=" -> "NOT_EQUAL" [] x = "<" -> "LESS_THAN"
      [] x = "<=" -> "LESS_EQUAL" [] x = ">" -> "GREATER_THAN"
      [] x = ">=" -> "GREATER_EQUAL" [] x = "&&" -> "LOGICAL_AND"
      [] x = "||" -> "LOGICAL_OR" [] x = "!" -> "LOGICAL_NOT" [] x = "&" -> "BORROW"
      [] x = "&mut" -> "BORROW_MUT"]

delimiters == [x \in {"(", ")", "{", "}", "[", "]", ";", ":", ",", "->"} |->
    CASE x = "(" -> "LEFT_PAREN" [] x = ")" -> "RIGHT_PAREN" [] x = "{" -> "LEFT_BRACE"
      [] x = "}" -> "RIGHT_BRACE" [] x = "[" -> "LEFT_BRACKET" [] x = "]" -> "RIGHT_BRACKET"
      [] x = ";" -> "SEMICOLON" [] x = ":" -> "COLON" [] x = "," -> "COMMA"
      [] x = "->" -> "ARROW"]

Token(type, value, line, column) ==
    [type |-> type, value |-> value, line |-> line, column |-> column]

Lexer_new ==
    [source |-> <<>>, position |-> 0, line |-> 1, column |-> 1,
     tokens |-> <<>>, errors |-> <<>>]

Lexer_current(lx) ==
    IF lx.position < Len(lx.source) THEN lx.source[lx.position + 1] ELSE NUL

Lexer_peek(lx) ==
    IF lx.position + 1 < Len(lx.source) THEN lx.source[lx.position + 2] ELSE NUL

\* advance() that does not start the column again at a newline
Lexer_advance_keepingColumn(lx) ==
    IF lx.position < Len(lx.source)
    THEN IF lx.source[lx.position + 1] = "\n"
         THEN [lx EXCEPT !.line = @ + 1, !.column = @ + 1, !.position = @ + 1]
         ELSE [lx EXCEPT !.column = @ + 1, !.position = @ + 1]
    ELSE lx

Lexer_advance(lx) ==
    IF lx.position < Len(lx.source)
    THEN IF lx.source[lx.position + 1] = "\n"
         THEN [lx EXCEPT !.line = @ + 1, !.column = 1, !.position = @ + 1]
         ELSE [lx EXCEPT !.column = @ + 1, !.position = @ + 1]
    ELSE lx

isAlpha(ch) == ch \in Letters
isDigit(ch) == ch \in Digits
isAlphaNumeric(ch) == isAlpha(ch) \/ isDigit(ch)
isOperatorStart(ch) == ch \in {"+", "-", "*", "/", "%", "=", "!", "<", ">", "&", "|"}
isDelimiter(lx, ch) ==
    \/ ch \in {"(", ")", "{", "}", "[", "]", ";", ":", ","}
    \/ (ch = "-" /\ Lexer_peek(lx) = ">")

RECURSIVE skipWhitespace(_)
skipWhitespace(lx) ==
    IF lx.position < Len(lx.source) /\ Lexer_current(lx) \in {" ", "\t", "\r", "\n"}
    THEN skipWhitespace(Lexer_advance(lx))
    ELSE lx

RECURSIVE skipToLineEnd(_)
skipToLineEnd(lx) ==
    IF Lexer_current(lx) # "\n" /\ Lexer_current(lx) # NUL
    THEN skipToLineEnd(Lexer_advance(lx))
    ELSE lx

skipLineComment(lx) == skipToLineEnd(Lexer_advance(Lexer_advance(lx)))

RECURSIVE skipToCommentEnd(_)
skipToCommentEnd(lx) ==
    IF lx.position < Len(lx.source) - 1
    THEN IF Lexer_current(lx) = "*" /\ Lexer_peek(lx) = "/"
         THEN Lexer_advance(Lexer_advance(lx))
         ELSE skipToCommentEnd(Lexer_advance(lx))
    ELSE lx

skipBlockComment(lx) == skipToCommentEnd(Lexer_advance(Lexer_advance(lx)))

\* the while loops that collect a lexeme: [lx, value]
RECURSIVE readWhile(_, _, _)
readWhile(lx, value, chars) ==
    IF Lexer_current(lx) \in chars
    THEN readWhile(Lexer_advance(lx), value \o Lexer_current(lx), chars)
    ELSE [lx |-> lx, value |-> value]

IdentChars == Letters \cup Digits \cup {"_"}

readIdentifierOrKeyword(lx) ==
    LET r == readWhile(lx, "", IdentChars)
        tokenType == IF r.value \in keywords THEN "KEYWORD"
                     ELSE IF r.value \in types THEN "TYPE"
                     ELSE "IDENTIFIER"
    IN [lx |-> [r.lx EXCEPT !.tokens =
                   Append(@, Token(tokenType, r.value, lx.line, lx.column))],
        thrown |-> NoError]

readNumber(lx) ==
    LET int == readWhile(lx, "", Digits)
        isFloat == Lexer_current(int.lx) = "." /\ isDigit(Lexer_peek(int.lx))
        r == IF isFloat
             THEN readWhile(Lexer_advance(int.lx), int.value \o ".", Digits)
             ELSE int
    IN [lx |-> [r.lx EXCEPT !.tokens =
                   Append(@, Token(IF isFloat THEN "FLOAT" ELSE "INTEGER",
                                   r.value, lx.line, lx.column))],
        thrown |-> NoError]

unescape(ch) ==
    CASE ch = "n" -> "\n" [] ch = "t" -> "\t" [] ch = "r" -> "\r"
      [] OTHER -> ch       \* '\\' and '"' and every other character stand for themselves

RECURSIVE readStringBody(_, _)
readStringBody(lx, value) ==
    IF Lexer_current(lx) # "\"" /\ Lexer_current(lx) # NUL
    THEN IF Lexer_current(lx) = "\\"
         THEN LET l1 == Lexer_advance(lx)
              IN readStringBody(Lexer_advance(l1), value \o unescape(Lexer_current(l1)))
         ELSE readStringBody(Lexer_advance(lx), value \o Lexer_current(lx))
    ELSE [lx |-> lx, value |-> value]

readString(lx) ==
    LET r == readStringBody(Lexer_advance(lx), "")
    IN IF Lexer_current(r.lx) = "\""
       THEN [lx |-> [Lexer_advance(r.lx) EXCEPT !.tokens =
                        Append(@, Token("STRING", r.value, lx.line, lx.column))],
             thrown |-> NoError]
       ELSE [lx |-> r.lx, thrown |-> "Unterminated string literal"]

readOperator(lx) ==
    LET twoChar == Lexer_current(lx) \o Lexer_peek(lx)
    IN IF twoChar \in DOMAIN operators
       THEN [lx |-> [Lexer_advance(Lexer_advance(lx)) EXCEPT !.tokens =
                        Append(@, Token(operators[twoChar], twoChar, lx.line, lx.column))],
             thrown |-> NoError]
       ELSE IF Lexer_current(lx) \in DOMAIN operators
       THEN [lx |-> [Lexer_advance(lx) EXCEPT !.tokens =
                        Append(@, Token(operators[Lexer_current(lx)], Lexer_current(lx),
                                        lx.line, lx.column))],
             thrown |-> NoError]
       ELSE [lx |-> lx, thrown |-> "Invalid operator: '" \o Lexer_current(lx) \o "'"]

readDelimiter(lx) ==
    LET twoChar == Lexer_current(lx) \o Lexer_peek(lx)
    IN IF twoChar \in DOMAIN delimiters
       THEN [lx |-> [Lexer_advance(Lexer_advance(lx)) EXCEPT !.tokens =
                        Append(@, Token(delimiters[twoChar], twoChar, lx.line, lx.column))],
             thrown |-> NoError]
       ELSE IF Lexer_current(lx) \in DOMAIN delimiters
       THEN [lx |-> [Lexer_advance(lx) EXCEPT !.tokens =
                        Append(@, Token(delimiters[Lexer_current(lx)], Lexer_current(lx),
                                        lx.line, lx.column))],
             thrown |-> NoError]
       ELSE [lx |-> lx, thrown |-> "Invalid delimiter: '" \o Lexer_current(lx) \o "'"]

\* the try block of one iteration of the loop of tokenize
scanOne(lx) ==
    LET char == Lexer_current(lx)
    IN IF isAlpha(char) \/ char = "_" THEN readIdentifierOrKeyword(lx)
       ELSE IF isDigit(char) THEN readNumber(lx)
       ELSE IF char = "\"" THEN readString(lx)
       ELSE IF char = "/"
            THEN IF Lexer_peek(lx) = "/"
                 THEN [lx |-> skipLineComment(lx), thrown |-> NoError]
                 ELSE IF Lexer_peek(lx) = "*"
                 THEN [lx |-> skipBlockComment(lx), thrown |-> NoError]
                 ELSE readOperator(lx)
       ELSE IF isOperatorStart(char) THEN readOperator(lx)
       ELSE IF isDelimiter(lx, char) THEN readDelimiter(lx)
       ELSE [lx |-> lx, thrown |-> "Unexpected character: '" \o char \o "'"]

\* one iteration of the loop of tokenize whose catch block does not advance
tokenizeStep_withoutSkip(lx) ==
    LET l1 == skipWhitespace(lx)
    IN IF l1.position >= Len(l1.source) THEN l1
       ELSE LET r == scanOne(l1)
            IN IF r.thrown = NoError THEN r.lx
               ELSE [r.lx EXCEPT !.errors =
                        Append(@, [type |-> "LexicalError", message |-> r.thrown,
                                   line |-> r.lx.line, column |-> r.lx.column])]

\* one iteration of the loop of tokenize, entered with position < source.length
tokenizeStep(lx) ==
    LET l1 == skipWhitespace(lx)
    IN IF l1.position >= Len(l1.source) THEN l1
       ELSE LET r == scanOne(l1)
            IN IF r.thrown = NoError THEN r.lx
               ELSE Lexer_advance([r.lx EXCEPT !.errors =
                        Append(@, [type |-> "LexicalError", message |-> r.thrown,
                                   line |-> r.lx.line, column |-> r.lx.column])])

tokenizeStart(lx, source) ==
    [lx EXCEPT !.source = source, !.position = 0, !.line = 1, !.column = 1,
               !.tokens = <<>>, !.errors = <<>>]

tokenizeEnd(lx) ==
    [lx EXCEPT !.tokens = Append(@, Token("EOF", Null, lx.line, lx.column))]

RECURSIVE tokenizeLoop(_)
tokenizeLoop(lx) ==
    IF lx.position < Len(lx.source) THEN tokenizeLoop(tokenizeStep(lx)) ELSE tokenizeEnd(lx)

\* the lexer object after tokenize(source); the call returns its tokens and errors
tokenize(lx, source) == tokenizeLoop(tokenizeStart(lx, source))

----------------------------------------------------------------------------
(* ASTNode and MiniRustParser *)

NullPos == -1       \* the null line / column of a node whose position was never set

NoNode == [type |-> "<undefined>"]      \* null / undefined where a node or an object is expected

ASTNode(type, value) ==
    [type |-> type, value |-> value, children |-> <<>>, line |-> NullPos, column |-> NullPos]

addChild(node, child) == [node EXCEPT !.children = Append(@, child)]

setPosition(node, line, column) == [node EXCEPT !.line = line, !.column = column]

StackOverflow == "Maximum call stack size exceeded"

Parser_new == [tokens |-> <<>>, current |-> 0, errors |-> <<>>]

\* isAtEnd and getCurrentToken call each other: with current < tokens.length neither
\* reaches a base case, and the engine ends the recursion with a RangeError.
Parser_isAtEnd(p) ==
    IF p.current >= Len(p.tokens)
    THEN [value |-> TRUE, thrown |-> NoError]
    ELSE [value |-> FALSE, thrown |-> StackOverflow]

\* the token, or Null for tokens[-1] of an empty list
Parser_getCurrentToken(p) ==
    IF Parser_isAtEnd(p).thrown # NoError
    THEN [token |-> Null, thrown |-> Parser_isAtEnd(p).thrown]
    ELSE [token |-> IF Len(p.tokens) = 0 THEN Null ELSE p.tokens[Len(p.tokens)],
          thrown |-> NoError]

\* The loop condition !isAtEnd() either throws or is false, so the loop body
\* (parseStatement and the error recovery) is never entered.
parseProgram(p) ==
    IF Parser_isAtEnd(p).thrown # NoError
    THEN [p |-> p, ast |-> NoNode, thrown |-> Parser_isAtEnd(p).thrown]
    ELSE [p |-> p, ast |-> ASTNode("Program", Null), thrown |-> NoError]

\* parse(tokens): [p, ast, errors, thrown]; thrown # NoError when the call throws
parse(p, tokens) ==
    LET p0 == [p EXCEPT !.tokens = tokens, !.current = 0, !.errors = <<>>]
        r == parseProgram(p0)
    IN IF r.thrown = NoError
       THEN [p |-> r.p, ast |-> r.ast, errors |-> r.p.errors, thrown |-> NoError]
       ELSE \* the catch block evaluates getCurrentToken().line before it pushes
            IF Parser_getCurrentToken(r.p).thrown # NoError
            THEN [p |-> r.p, ast |-> NoNode, errors |-> r.p.errors,
                  thrown |-> Parser_getCurrentToken(r.p).thrown]
            ELSE LET q == [r.p EXCEPT !.errors = Append(@,
                              [type |-> "ParseError", message |-> r.thrown,
                               line |-> Parser_getCurrentToken(r.p).token.line,
                               column |-> Parser_getCurrentToken(r.p).token.column])]
                 IN [p |-> q, ast |-> NoNode, errors |-> q.errors, thrown |-> NoError]

\* The trees the parser's node constructions build, statement by statement.
FunctionDeclarationNode(name, params, returnType, body, line, column) ==
    LET paramNode(pr) == addChild(addChild(ASTNode("Parameter", Null),
                                           ASTNode("ParameterName", pr.name)),
                                  ASTNode("ParameterType", pr.type))
        paramsNode == [ASTNode("Parameters", Null) EXCEPT
                          !.children = [i \in 1..Len(params) |-> paramNode(params[i])]]
        f1 == addChild(addChild(setPosition(ASTNode("FunctionDeclaration", Null), line, column),
                                ASTNode("FunctionName", name)), paramsNode)
        f2 == IF returnType = Null THEN f1 ELSE addChild(f1, ASTNode("ReturnType", returnType))
    IN addChild(f2, body)

VariableDeclarationNode(name, isMutable, type, init, line, column) ==
    LET n1 == addChild(addChild(setPosition(ASTNode("VariableDeclaration", Null), line, column),
                                ASTNode("VariableName", name)),
                       ASTNode("Mutable", isMutable))
        n2 == IF type = Null THEN n1 ELSE addChild(n1, ASTNode("VariableType", type))
    IN [n2 EXCEPT !.children = @ \o init]     \* init: <<>> or <<expression>>

BlockNode(stmts, line, column) ==
    [setPosition(ASTNode("Block", Null), line, column) EXCEPT !.children = stmts]

IfStatementNode(cond, thenBranch, elseBranch, line, column) ==
    [setPosition(ASTNode("IfStatement", Null), line, column) EXCEPT
        !.children = <<cond, thenBranch>> \o elseBranch]   \* elseBranch: <<>> or <<block>>

WhileStatementNode(cond, body, line, column) ==
    [setPosition(ASTNode("WhileStatement", Null), line, column) EXCEPT
        !.children = <<cond, body>>]

ReturnStatementNode(value, line, column) ==
    [setPosition(ASTNode("ReturnStatement", Null), line, column) EXCEPT
        !.children = value]                                \* value: <<>> or <<expression>>

PrintStatementNode(expr, line, column) ==
    addChild(setPosition(ASTNode("PrintStatement", Null), line, column), expr)

AssignmentNode(left, right, line, column) ==
    addChild(addChild(setPosition(ASTNode("Assignment", Null), line, column), left), right)

BinaryOperationNode(op, left, right, line, column) ==
    addChild(addChild(setPosition(ASTNode("BinaryOperation", op), line, column), left), right)

UnaryOperationNode(op, operand, line, column) ==
    addChild(setPosition(ASTNode("UnaryOperation", op), line, column), operand)

\* IntegerLiteral, FloatLiteral, StringLiteral, BooleanLiteral, Identifier
PrimaryNode(type, value, line, column) == setPosition(ASTNode(type, value), line, column)

ProgramNode(stmts) == [ASTNode("Program", Null) EXCEPT !.children = stmts]

----------------------------------------------------------------------------
(* Symbol, Scope and MiniRustSemanticAnalyzer *)
(* The chain of scopes from the global scope to the current one is a stack: *)
(* scopes[1] is globalScope, the last element is currentScope. A scope is   *)
(* the sequence of its symbols in insertion order (a JavaScript Map).       *)

RECURSIVE FindFirst(_, _)
FindFirst(children, Types) ==
    IF children = <<>> THEN NoNode
    ELSE IF Head(children).type \in Types THEN Head(children)
    ELSE FindFirst(Tail(children), Types)

AllNodeTypes == {"Program", "FunctionDeclaration", "FunctionName", "Parameters", "Parameter",
                 "ParameterName", "ParameterType", "ReturnType", "VariableDeclaration",
                 "VariableName", "Mutable", "VariableType", "Assignment", "IfStatement",
                 "WhileStatement", "Block", "BinaryOperation", "UnaryOperation", "Identifier",
                 "IntegerLiteral", "FloatLiteral", "StringLiteral", "BooleanLiteral",
                 "PrintStatement", "ReturnStatement"}

\* the initializer of a VariableDeclaration: its first child that is no name, flag or type
initValueNodeOf(node) ==
    FindFirst(node.children, AllNodeTypes \ {"VariableName", "Mutable", "VariableType"})

\* new Symbol(...) with the isMutable argument lost: every symbol is mutable
Symbol_alwaysMutable(name, type, isMutable, line, column) ==
    [name |-> name, type |-> type, isMutable |-> TRUE, line |-> line, column |-> column,
     isUsed |-> FALSE, borrowState |-> "owned", borrowCount |-> 0, mutableBorrowCount |-> 0]

Symbol(name, type, isMutable, line, column) ==
    [name |-> name, type |-> type, isMutable |-> isMutable, line |-> line, column |-> column,
     isUsed |-> FALSE, borrowState |-> "owned", borrowCount |-> 0, mutableBorrowCount |-> 0]

Scope_has(scope, name) == \E i \in 1..Len(scope) : scope[i].name = name

\* Scope.lookup from the current scope through the parents:
\* [found, level, index] of the symbol in the stack of scopes
Scope_lookup(scopes, name) ==
    LET levels == {l \in 1..Len(scopes) : Scope_has(scopes[l], name)}
    IN IF levels = {} THEN [found |-> FALSE, level |-> 0, index |-> 0]
       ELSE LET l == CHOOSE x \in levels : \A y \in levels : y <= x
            IN [found |-> TRUE, level |-> l,
                index |-> CHOOSE i \in 1..Len(scopes[l]) : scopes[l][i].name = name]

\* new MiniRustSemanticAnalyzer(): the global scope holds the built-in print
Analyzer_new ==
    [scopes |-> << <<Symbol("print", "function", FALSE, NullPos, NullPos)>> >>,
     errors |-> <<>>, warnings |-> <<>>, ownershipInfo |-> <<>>, currentFunction |-> Null]

Sem_error(a, type, message, line, column) ==
    [a EXCEPT !.errors = Append(@, [type |-> type, message |-> message,
                                    line |-> line, column |-> column])]

\* currentScope.define(symbol), and the error pushed when it returns false
Sem_define(a, symbol, message) ==
    IF Scope_has(a.scopes[Len(a.scopes)], symbol.name)
    THEN Sem_error(a, "SemanticError", message, symbol.line, symbol.column)
    ELSE [a EXCEPT !.scopes[Len(a.scopes)] = Append(@, symbol)]

enterScope(a) == [a EXCEPT !.scopes = Append(@, <<>>)]

exitScope(a) ==
    IF Len(a.scopes) > 1 THEN [a EXCEPT !.scopes = SubSeq(@, 1, Len(@) - 1)] ELSE a

Sem_markUsed(a, name) ==
    LET s == Scope_lookup(a.scopes, name)
    IN IF s.found THEN [a EXCEPT !.scopes[s.level][s.index].isUsed = TRUE] ELSE a

handleBorrow(a, target, isMutable) ==
    IF target.type = "Identifier"
    THEN LET s == Scope_lookup(a.scopes, target.value)
         IN IF s.found /\ isMutable /\ ~a.scopes[s.level][s.index].isMutable
            THEN Sem_error(a, "OwnershipError",
                     "Cannot create mutable borrow of immutable variable '"
                         \o target.value \o "'", target.line, target.column)
            ELSE a
    ELSE a

arithmeticOps == {"+", "-", "*", "/", "%"}
comparisonOps == {"<", "<=", ">", ">=", "==", "!="}
logicalOps == {"&&", "||"}

RECURSIVE Sem_visitNode(_, _), Sem_visitAll(_, _), Sem_defineParams(_, _)

\* for (const child of children) this.visitNode(child)
Sem_visitAll(a, children) ==
    IF children = <<>> THEN a
    ELSE LET a1 == Sem_visitNode(a, Head(children)).a
         IN After(a1, Sem_visitAll(a1, Tail(children)))

Sem_defineParams(a, params) ==
    IF params = <<>> THEN a
    ELSE LET paramNode == Head(params)
             name == FindFirst(paramNode.children, {"ParameterName"}).value
             type == FindFirst(paramNode.children, {"ParameterType"}).value
             a1 == Sem_define(a, Symbol(name, type, FALSE, paramNode.line, paramNode.column),
                              "Parameter '" \o name \o "' is already defined")
         IN After(a1, Sem_defineParams(a1, Tail(params)))

Sem_visitFunctionDeclaration(a, node) ==
    LET functionName == FindFirst(node.children, {"FunctionName"}).value
        paramsNode == FindFirst(node.children, {"Parameters"})
        bodyNode == FindFirst(node.children, {"Block"})
        a1 == Sem_define(a, Symbol(functionName, "function", FALSE, node.line, node.column),
                         "Function '" \o functionName \o "' is already defined")
        a2 == enterScope([a1 EXCEPT !.currentFunction = functionName])
        a3 == IF paramsNode = NoNode THEN a2 ELSE Sem_defineParams(a2, paramsNode.children)
        a4 == Sem_visitNode(a3, bodyNode).a
    IN After(a3, [a |-> [exitScope(a4) EXCEPT !.currentFunction = Null], type |-> "function"])

Sem_visitVariableDeclaration(a, node) ==
    LET variableName == FindFirst(node.children, {"VariableName"}).value
        isMutable == FindFirst(node.children, {"Mutable"}).value
        typeNode == FindFirst(node.children, {"VariableType"})
        declared == IF typeNode = NoNode THEN Null ELSE typeNode.value
        init == Sem_visitNode(a, initValueNodeOf(node))
        initType == init.type
        a1 == init.a
        mismatch == declared # Null /\ initType # Null /\ declared # initType
        cannotInfer == declared = Null /\ initType = Null
        variableType == IF declared # Null THEN declared
                        ELSE IF initType # Null THEN initType ELSE "unknown"
        a2 == IF mismatch
              THEN Sem_error(a1, "TypeError", "Type mismatch: expected '" \o declared
                                 \o "', found '" \o initType \o "'", node.line, node.column)
              ELSE IF cannotInfer
              THEN Sem_error(a1, "TypeError", "Cannot infer type for variable '"
                                 \o variableName \o "'", node.line, node.column)
              ELSE a1
    IN [a |-> Sem_define(a2, Symbol(variableName, variableType, isMutable,
                                    node.line, node.column),
                         "Variable '" \o variableName \o "' is already defined in this scope"),
        type |-> variableType]

Sem_visitIdentifier(a, node) ==
    LET s == Scope_lookup(a.scopes, node.value)
    IN IF ~s.found
       THEN [a |-> Sem_error(a, "SemanticError", "Undefined variable '" \o node.value \o "'",
                             node.line, node.column),
             type |-> "unknown"]
       ELSE [a |-> Sem_markUsed(a, node.value), type |-> a.scopes[s.level][s.index].type]

Sem_visitAssignment(a, node) ==
    LET left == Sem_visitNode(a, node.children[1])
        right == Sem_visitNode(left.a, node.children[2])
        a1 == right.a
        s == Scope_lookup(a1.scopes, node.children[1].value)
    IN IF left.type = Null \/ right.type = Null THEN [a |-> a1, type |-> Null]
       ELSE IF node.children[1].type = "Identifier" /\ s.found
       THEN LET a2 == IF ~a1.scopes[s.level][s.index].isMutable
                      THEN Sem_error(a1, "OwnershipError",
                               "Cannot assign to immutable variable '"
                                   \o node.children[1].value \o "'", node.line, node.column)
                      ELSE a1
                a3 == Sem_markUsed(a2, node.children[1].value)
                a4 == IF left.type # right.type
                      THEN Sem_error(a3, "TypeError", "Type mismatch: cannot assign '"
                               \o right.type \o "' to '" \o left.type \o "'",
                               node.line, node.column)
                      ELSE a3
            IN [a |-> a4, type |-> left.type]
       ELSE [a |-> a1, type |-> left.type]

Sem_visitBinaryOperation(a, node) ==
    LET left == Sem_visitNode(a, node.children[1])
        right == Sem_visitNode(left.a, node.children[2])
        a1 == right.a
        operator == node.value
    IN IF left.type = Null \/ right.type = Null THEN [a |-> a1, type |-> Null]
       ELSE IF operator \in arithmeticOps
       THEN [a |-> IF left.type # right.type
                   THEN Sem_error(a1, "TypeError", "Type mismatch in arithmetic operation: '"
                            \o left.type \o "' " \o operator \o " '" \o right.type \o "'",
                            node.line, node.column)
                   ELSE a1,
             type |-> left.type]
       ELSE IF operator \in comparisonOps
       THEN [a |-> IF left.type # right.type
                   THEN Sem_error(a1, "TypeError", "Type mismatch in comparison: '"
                            \o left.type \o "' " \o operator \o " '" \o right.type \o "'",
                            node.line, node.column)
                   ELSE a1,
             type |-> "bool"]
       ELSE IF operator \in logicalOps
       THEN [a |-> IF left.type # "bool" \/ right.type # "bool"
                   THEN Sem_error(a1, "TypeError", "Logical operations require boolean operands",
                            node.line, node.column)
                   ELSE a1,
             type |-> "bool"]
       ELSE [a |-> a1, type |-> "unknown"]

Sem_visitUnaryOperation(a, node) ==
    LET operand == Sem_visitNode(a, node.children[1])
        a1 == operand.a
        operator == node.value
    IN IF operand.type = Null THEN [a |-> a1, type |-> Null]
       ELSE IF operator = "-"
       THEN [a |-> IF operand.type # "i32" /\ operand.type # "f64"
                   THEN Sem_error(a1, "TypeError",
                            "Unary minus can only be applied to numeric types",
                            node.line, node.column)
                   ELSE a1,
             type |-> operand.type]
       ELSE IF operator = "!"
       THEN [a |-> IF operand.type # "bool"
                   THEN Sem_error(a1, "TypeError",
                            "Logical not can only be applied to boolean type",
                            node.line, node.column)
                   ELSE a1,
             type |-> "bool"]
       ELSE IF operator \in {"&", "&mut"}
       THEN [a |-> handleBorrow(a1, node.children[1], operator = "&mut"),
             type |-> "&" \o (IF operator = "&mut" THEN "mut " ELSE "") \o operand.type]
       ELSE [a |-> a1, type |-> operand.type]

\* visitIfStatement and visitWhileStatement
Sem_visitCondition(a, node, what) ==
    LET cond == Sem_visitNode(a, node.children[1])
        a1 == IF cond.type # Null /\ cond.type # "bool"
              THEN Sem_error(cond.a, "TypeError", what \o " condition must be of type bool, found '"
                                 \o cond.type \o "'", node.line, node.column)
              ELSE cond.a
    IN [a |-> Sem_visitAll(a1, Tail(node.children)), type |-> Null]

Sem_visitBlock(a, node) ==
    [a |-> exitScope(Sem_visitAll(enterScope(a), node.children)), type |-> Null]

\* visitNode: [a, type], type Null when the visit returns null
Sem_visitNode(a, node) ==
    CASE node.type = NoNode.type -> [a |-> a, type |-> Null]
      [] node.type = "Program" -> [a |-> Sem_visitAll(a, node.children), type |-> Null]
      [] node.type = "FunctionDeclaration" -> Sem_visitFunctionDeclaration(a, node)
      [] node.type = "VariableDeclaration" -> Sem_visitVariableDeclaration(a, node)
      [] node.type = "IfStatement" -> Sem_visitCondition(a, node, "If")
      [] node.type = "WhileStatement" -> Sem_visitCondition(a, node, "While")
      [] node.type = "Block" -> Sem_visitBlock(a, node)
      [] node.type = "Assignment" -> Sem_visitAssignment(a, node)
      [] node.type = "BinaryOperation" -> Sem_visitBinaryOperation(a, node)
      [] node.type = "UnaryOperation" -> Sem_visitUnaryOperation(a, node)
      [] node.type = "Identifier" -> Sem_visitIdentifier(a, node)
      [] node.type = "IntegerLiteral" -> [a |-> a, type |-> "i32"]
      [] node.type = "FloatLiteral" -> [a |-> a, type |-> "f64"]
      [] node.type = "StringLiteral" -> [a |-> a, type |-> "str"]
      [] node.type = "BooleanLiteral" -> [a |-> a, type |-> "bool"]
      [] node.type \in {"PrintStatement", "ReturnStatement"} ->
            [a |-> Sem_visitAll(a, node.children), type |-> Null]
      [] OTHER -> [a |-> Sem_visitAll(a, node.children), type |-> Null]

Sem_info(a, text) == [a EXCEPT !.ownershipInfo = Append(@, text)]

\* analyzeBorrowOwnership with the tests of the two counters lost
analyzeBorrowOwnership_unchecked(a, node) ==
    LET target == node.children[1]
        s == Scope_lookup(a.scopes, target.value)
    IN IF target.type # "Identifier" THEN a
       ELSE IF ~s.found THEN a
       ELSE IF node.value = "&mut"
       THEN Sem_info([a EXCEPT !.scopes[s.level][s.index].mutableBorrowCount = @ + 1],
                     "Mutable borrow of '" \o target.value \o "'")
       ELSE Sem_info([a EXCEPT !.scopes[s.level][s.index].borrowCount = @ + 1],
                     "Immutable borrow of '" \o target.value \o "'")

analyzeBorrowOwnership(a, node) ==
    LET isMutableBorrow == node.value = "&mut"
        target == node.children[1]
        s == Scope_lookup(a.scopes, target.value)
        symbol == a.scopes[s.level][s.index]
    IN IF target.type # "Identifier" THEN a
       ELSE IF ~s.found THEN a
       ELSE IF isMutableBorrow
       THEN IF symbol.mutableBorrowCount > 0
            THEN Sem_error(a, "OwnershipError", "Cannot create mutable borrow: '"
                     \o target.value \o "' is already mutably borrowed", node.line, node.column)
            ELSE IF symbol.borrowCount > 0
            THEN Sem_error(a, "OwnershipError", "Cannot create mutable borrow: '"
                     \o target.value \o "' is already borrowed", node.line, node.column)
            ELSE Sem_info([a EXCEPT !.scopes[s.level][s.index].mutableBorrowCount = @ + 1],
                          "Mutable borrow of '" \o target.value \o "'")
       ELSE IF symbol.mutableBorrowCount > 0
            THEN Sem_error(a, "OwnershipError", "Cannot create immutable borrow: '"
                     \o target.value \o "' is already mutably borrowed", node.line, node.column)
            ELSE Sem_info([a EXCEPT !.scopes[s.level][s.index].borrowCount = @ + 1],
                          "Immutable borrow of '" \o target.value \o "'")

RECURSIVE analyzeOwnership(_, _), analyzeOwnershipAll(_, _)

analyzeOwnershipAll(a, children) ==
    IF children = <<>> THEN a
    ELSE LET a1 == analyzeOwnership(a, Head(children))
         IN After(a1, analyzeOwnershipAll(a1, Tail(children)))

analyzeOwnership(a, node) ==
    LET a1 == CASE node.type = "VariableDeclaration" ->
                      Sem_info(a, "Variable '" \o FindFirst(node.children, {"VariableName"}).value
                                  \o "' takes ownership of its value")
                 [] node.type = "Assignment" ->
                      IF node.children[1].type = "Identifier"
                      THEN Sem_info(a, "Assignment transfers ownership to '"
                                       \o node.children[1].value \o "'")
                      ELSE a
                 [] node.type = "UnaryOperation" ->
                      IF node.value \in {"&", "&mut"} THEN analyzeBorrowOwnership(a, node) ELSE a
                 [] OTHER -> a
    IN After(a1, analyzeOwnershipAll(a1, node.children))

performOwnershipAnalysis(a, ast) ==
    analyzeOwnership(Sem_info(a, "=== Ownership Analysis ==="), ast)

\* the warnings for the symbols of the global scope, in insertion order
RECURSIVE unusedWarnings(_)
unusedWarnings(scope) ==
    IF scope = <<>> THEN <<>>
    ELSE LET symbol == Head(scope)
         IN (IF ~symbol.isUsed /\ symbol.type # "function" /\ symbol.name # "print"
             THEN <<[type |-> "UnusedVariable",
                     message |-> "Variable '" \o symbol.name \o "' is declared but never used",
                     line |-> symbol.line, column |-> symbol.column]>>
             ELSE <<>>) \o unusedWarnings(Tail(scope))

checkUnusedVariables(a) == [a EXCEPT !.warnings = @ \o unusedWarnings(a.scopes[1])]

\* globalScope.getAllSymbols(): the global scope has no parent, so its own symbols
getAllSymbols(a) == a.scopes[1]

\* the object keyed by name, as the sequence of its entries in key order
formatSymbolTable(a) ==
    [i \in 1..Len(getAllSymbols(a)) |->
        LET symbol == getAllSymbols(a)[i]
        IN [name |-> symbol.name, type |-> symbol.type, mutable |-> symbol.isMutable,
            used |-> symbol.isUsed, line |-> symbol.line, column |-> symbol.column]]

\* analyze with the test of checkOwnership lost: the ownership pass always runs
analyze_alwaysOwnership(a, ast, checkOwnership) ==
    LET a0 == [a EXCEPT !.errors = <<>>, !.warnings = <<>>, !.ownershipInfo = <<>>]
        a1 == Sem_visitNode(a0, ast).a
        a2 == performOwnershipAnalysis(a1, ast)
    IN After(a1, After(a2, checkUnusedVariables(a2)))

\* the analyzer after analyze(ast, checkOwnership) on a well-formed tree
\* (no visit throws on one, so the catch block is not entered)
analyze(a, ast, checkOwnership) ==
    LET a0 == [a EXCEPT !.errors = <<>>, !.warnings = <<>>, !.ownershipInfo = <<>>]
        a1 == Sem_visitNode(a0, ast).a
        a2 == IF checkOwnership THEN performOwnershipAnalysis(a1, ast) ELSE a1
    IN After(a1, After(a2, checkUnusedVariables(a2)))

\* what analyze returns
analyzeResult(a) ==
    [symbolTable |-> formatSymbolTable(a), errors |-> a.errors, warnings |-> a.warnings,
     ownershipInfo |-> a.ownershipInfo, success |-> Len(a.errors) = 0]

----------------------------------------------------------------------------
(* IRInstruction, IRBasicBlock, IRFunction and MiniRustIRGenerator          *)
(*                                                                          *)
(* A result or operand string is the sequence of its pieces: a leading "%"  *)
(* or "@" is a piece of its own, so startsWith('%') reads the first piece,  *)
(* a name is one piece, and an appended "," or ")" is a further piece. Two  *)
(* such sequences are equal exactly when the JavaScript strings are. Type   *)
(* names are plain strings. A basic block is known by its index in the      *)
(* basicBlocks of its function, a function by its index in functions;       *)
(* index 0 is null.                                                         *)

RECURSIVE Concat(_)
Concat(pieces) == IF pieces = <<>> THEN "" ELSE Head(pieces) \o Concat(Tail(pieces))

\* strings.join(separator)
RECURSIVE JoinStrings(_, _)
JoinStrings(strings, separator) ==
    IF strings = <<>> THEN ""
    ELSE IF Len(strings) = 1 THEN strings[1]
    ELSE strings[1] \o separator \o JoinStrings(Tail(strings), separator)

NoResult == <<>>        \* the null result of an instruction

IRInstruction(opcode, result, operands, type) ==
    [opcode |-> opcode, result |-> result, operands |-> operands, type |-> type,
     comment |-> Null]

setComment(instr, comment) == [instr EXCEPT !.comment = comment]

Instruction_toString(instr) ==
    (IF instr.result # NoResult THEN "  " \o Concat(instr.result) \o " = " ELSE "  ")
    \o instr.opcode
    \o (IF instr.type # Null THEN " " \o instr.type ELSE "")
    \o (IF Len(instr.operands) > 0
        THEN " " \o JoinStrings([i \in 1..Len(instr.operands) |-> Concat(instr.operands[i])],
                                ", ")
        ELSE "")
    \o (IF instr.comment # Null THEN " ; " \o instr.comment ELSE "")

IRBasicBlock(name) == [name |-> name, instructions |-> <<>>, terminated |-> FALSE]

Block_addInstruction(block, instr) ==
    IF ~block.terminated
    THEN [block EXCEPT !.instructions = Append(@, instr),
                       !.terminated = instr.opcode \in {"br", "ret", "br_cond"}]
    ELSE block

Block_toString(block) ==
    block.name \o ":\n"
    \o Concat([i \in 1..Len(block.instructions) |->
                  Instruction_toString(block.instructions[i]) \o "\n"])

IRFunction(name, returnType, parameters) ==
    [name |-> name, returnType |-> returnType, parameters |-> parameters,
     basicBlocks |-> <<>>, currentBlock |-> 0, nextBlockId |-> 0, nextTempId |-> 0]

createBasicBlock(func, name) ==
    IF name = Null
    THEN [func EXCEPT !.basicBlocks = Append(@, IRBasicBlock("bb" \o ToString(func.nextBlockId))),
                      !.nextBlockId = @ + 1]
    ELSE [func EXCEPT !.basicBlocks = Append(@, IRBasicBlock(name))]

setCurrentBlock(func, block) == [func EXCEPT !.currentBlock = block]

Function_addInstruction(func, instr) ==
    IF func.currentBlock # 0
    THEN [func EXCEPT !.basicBlocks[func.currentBlock] = Block_addInstruction(@, instr)]
    ELSE func

\* getNextTemp(prefix): the name returned and the function after the call
getNextTemp(func, prefix) ==
    [value |-> <<"%", prefix \o ToString(func.nextTempId)>>,
     func |-> [func EXCEPT !.nextTempId = @ + 1]]

Function_toString(func) ==
    "define " \o func.returnType \o " @" \o func.name \o "("
    \o JoinStrings([i \in 1..Len(func.parameters) |->
                       func.parameters[i].type \o " %" \o func.parameters[i].name], ", ")
    \o ") {\n"
    \o Concat([i \in 1..Len(func.basicBlocks) |-> Block_toString(func.basicBlocks[i])])
    \o "}\n"

\* new MiniRustIRGenerator(). stringLiterals is the Map in insertion order, the
\* id of a literal being its index less one; variables is the Map as a
\* function. thrown is the message of an exception on its way to the catch of
\* generate: once it is set, no operation of the generator changes the
\* object any more.
IRGenerator_new ==
    [functions |-> <<>>, currentFunction |-> 0, stringLiterals |-> <<>>, nextStringId |-> 0,
     variables |-> <<>>, errors |-> <<>>, thrown |-> NoError]

Threw(g) == g.thrown # NoError

\* reading a method of this.currentFunction while it is null
NullDeref(method) == "Cannot read properties of null (reading '" \o method \o "')"

Gen_throw(g, message) == IF Threw(g) THEN g ELSE [g EXCEPT !.thrown = message]

\* this.currentFunction.addInstruction(instr)
Gen_addInstruction(g, instr) ==
    IF Threw(g) THEN g
    ELSE IF g.currentFunction = 0 THEN Gen_throw(g, NullDeref("addInstruction"))
    ELSE [g EXCEPT !.functions[g.currentFunction] = Function_addInstruction(@, instr)]

\* this.currentFunction.getNextTemp(prefix): [g, value]
Gen_getNextTemp(g, prefix) ==
    IF Threw(g) THEN [g |-> g, value |-> NoResult]
    ELSE IF g.currentFunction = 0
    THEN [g |-> Gen_throw(g, NullDeref("getNextTemp")), value |-> NoResult]
    ELSE LET r == getNextTemp(g.functions[g.currentFunction], prefix)
         IN [g |-> [g EXCEPT !.functions[g.currentFunction] = r.func], value |-> r.value]

\* this.currentFunction.createBasicBlock(name); the new block is the last one
Gen_createBasicBlock(g, name) ==
    IF Threw(g) THEN g
    ELSE IF g.currentFunction = 0 THEN Gen_throw(g, NullDeref("createBasicBlock"))
    ELSE [g EXCEPT !.functions[g.currentFunction] = createBasicBlock(@, name)]

Gen_setCurrentBlock(g, block) ==
    IF Threw(g) THEN g
    ELSE IF g.currentFunction = 0 THEN Gen_throw(g, NullDeref("setCurrentBlock"))
    ELSE [g EXCEPT !.functions[g.currentFunction] = setCurrentBlock(@, block)]

mapTypeToLLVM(rustType) ==
    CASE rustType = "i32" -> "i32"
      [] rustType = "f64" -> "double"
      [] rustType = "bool" -> "i1"
      [] rustType = "str" -> "i8*"
      [] rustType = "void" -> "void"
      [] OTHER -> "i32"

getDefaultValue(llvmType) ==
    CASE llvmType = "i32" -> "0"
      [] llvmType = "double" -> "0.0"
      [] llvmType = "i1" -> "0"
      [] llvmType = "i8*" -> "null"
      [] OTHER -> "0"

\* variables.set(name, info)
Map_set(map, name, info) ==
    [n \in DOMAIN map \cup {name} |-> IF n = name THEN info ELSE map[n]]

\* what a visit returns: null, or { value, type }
NoValue == [value |-> <<>>, type |-> "<null>"]
Value(value, type) == [value |-> value, type |-> type]

binaryOpcode(operator, leftType) ==
    LET d == leftType = "double"
    IN CASE operator = "+" -> IF d THEN "fadd" ELSE "add"
         [] operator = "-" -> IF d THEN "fsub" ELSE "sub"
         [] operator = "*" -> IF d THEN "fmul" ELSE "mul"
         [] operator = "/" -> IF d THEN "fdiv" ELSE "sdiv"
         [] operator = "%" -> "srem"
         [] operator = "<" -> IF d THEN "fcmp olt" ELSE "icmp slt"
         [] operator = "<=" -> IF d THEN "fcmp ole" ELSE "icmp sle"
         [] operator = ">" -> IF d THEN "fcmp ogt" ELSE "icmp sgt"
         [] operator = ">=" -> IF d THEN "fcmp oge" ELSE "icmp sge"
         [] operator = "==" -> IF d THEN "fcmp oeq" ELSE "icmp eq"
         [] operator = "!=" -> IF d THEN "fcmp one" ELSE "icmp ne"
         [] operator = "&&" -> "and"
         [] operator = "||" -> "or"
         [] OTHER -> Null                   \* the default case, which throws

RECURSIVE IR_visitNode(_, _), IR_visitAll(_, _)

\* for (const child of children) this.visitNode(child)
IR_visitAll(g, children) ==
    IF children = <<>> \/ Threw(g) THEN g
    ELSE IR_visitAll(IR_visitNode(g, Head(children)).g, Tail(children))

\* A visit method is written as the steps of its body, each step an operator of
\* the generator (or of the visit result) the step before it left.

IR_visitFunctionDeclaration(g, node) ==
    LET nameNode == FindFirst(node.children, {"FunctionName"})
        paramsNode == FindFirst(node.children, {"Parameters"})
        returnTypeNode == FindFirst(node.children, {"ReturnType"})
        bodyNode == FindFirst(node.children, {"Block"})
        returnType == mapTypeToLLVM(IF returnTypeNode # NoNode THEN returnTypeNode.value
                                    ELSE "void")
        paramNodes == IF paramsNode # NoNode THEN paramsNode.children ELSE <<>>
        parameters ==
            [i \in 1..Len(paramNodes) |->
                [name |-> FindFirst(paramNodes[i].children, {"ParameterName"}).value,
                 type |-> mapTypeToLLVM(
                              FindFirst(paramNodes[i].children, {"ParameterType"}).value)]]
        irFunction == Len(g.functions) + 1
        withParams[i \in 0..Len(parameters)] ==
            IF i = 0 THEN g.variables
            ELSE Map_set(withParams[i - 1], parameters[i].name,
                         [value |-> <<"%", parameters[i].name>>, type |-> parameters[i].type,
                          elementType |-> Null, isAlloca |-> FALSE])
        entered ==
            [g EXCEPT !.functions = Append(@, setCurrentBlock(
                          createBasicBlock(IRFunction(nameNode.value, returnType, parameters),
                                           "entry"), 1)),
                      !.currentFunction = irFunction,
                      !.variables = withParams[Len(parameters)]]
        return == IF returnType = "void"
                  THEN IRInstruction("ret", NoResult, << <<"void">> >>, Null)
                  ELSE IRInstruction("ret", NoResult,
                           << <<returnType>>, <<getDefaultValue(returnType)>> >>, Null)
        ensureReturn(g1) ==
            IF Threw(g1) THEN g1
            ELSE [g1 EXCEPT !.functions[irFunction] =
                                IF @.basicBlocks[@.currentBlock].terminated THEN @
                                ELSE Function_addInstruction(@, return),
                            !.currentFunction = 0]
    IN [g |-> ensureReturn(IR_visitNode(entered, bodyNode).g), value |-> NoValue]

IR_visitVariableDeclaration(g, node) ==
    LET nameNode == FindFirst(node.children, {"VariableName"})
        typeNode == FindFirst(node.children, {"VariableType"})
        initValueNode == initValueNodeOf(node)
        variableName == nameNode.value
        variableType == mapTypeToLLVM(IF typeNode # NoNode THEN typeNode.value ELSE "i32")
        store(value, allocaResult) ==
            IRInstruction("store", NoResult,
                << <<variableType>>, value, <<variableType \o "*">>, allocaResult >>, Null)
        storeInit(initValue, allocaResult) ==
            IF initValue.value # NoValue
            THEN Gen_addInstruction(initValue.g, store(initValue.value.value, allocaResult))
            ELSE initValue.g
        initialize(g1, allocaResult) ==
            IF initValueNode # NoNode
            THEN storeInit(IR_visitNode(g1, initValueNode), allocaResult)
            ELSE Gen_addInstruction(g1, store(<<getDefaultValue(variableType)>>, allocaResult))
        declare(g2, allocaResult) ==
            IF Threw(g2) THEN g2
            ELSE [g2 EXCEPT !.variables = Map_set(@, variableName,
                     [value |-> allocaResult, type |-> variableType \o "*",
                      elementType |-> variableType, isAlloca |-> TRUE])]
        allocate(alloca) ==
            declare(initialize(Gen_addInstruction(alloca.g,
                                   setComment(IRInstruction("alloca", alloca.value,
                                                  << <<variableType>> >>, Null),
                                              "Variable: " \o variableName)),
                               alloca.value),
                    alloca.value)
    IN [g |-> allocate(Gen_getNextTemp(g, "alloca")), value |-> NoValue]

IR_visitAssignment(g, node) ==
    LET leftNode == node.children[1]
        variableName == leftNode.value
        assign(right) ==
            IF Threw(right.g) THEN right
            ELSE IF leftNode.type = "Identifier" /\ right.value # NoValue
                    /\ variableName \in DOMAIN right.g.variables
                    /\ right.g.variables[variableName].isAlloca
            THEN [g |-> Gen_addInstruction(right.g,
                            IRInstruction("store", NoResult,
                                << <<right.g.variables[variableName].elementType>>,
                                   right.value.value,
                                   <<right.g.variables[variableName].type>>,
                                   right.g.variables[variableName].value >>, Null)),
                  value |-> right.value]
            ELSE right
    IN assign(IR_visitNode(g, node.children[2]))

IR_visitBinaryOperation(g, node) ==
    LET operator == node.value
        emit(leftValue, rightValue, temp) ==
            LET opcode == binaryOpcode(operator, leftValue.type)
                resultType == IF operator \in comparisonOps \cup logicalOps THEN "i1"
                              ELSE leftValue.type
            IN IF Threw(temp.g) THEN [g |-> temp.g, value |-> NoValue]
               ELSE IF opcode = Null
               THEN [g |-> Gen_throw(temp.g, "Unsupported binary operator: " \o operator),
                     value |-> NoValue]
               ELSE [g |-> Gen_addInstruction(temp.g,
                               IRInstruction(opcode, temp.value,
                                   << <<leftValue.type>>, Append(leftValue.value, ","),
                                      rightValue.value >>, resultType)),
                     value |-> Value(temp.value, resultType)]
        operate(left, right) ==
            IF Threw(right.g) \/ left.value = NoValue \/ right.value = NoValue
            THEN [g |-> right.g, value |-> NoValue]
            ELSE emit(left.value, right.value, Gen_getNextTemp(right.g, "t"))
        visitRight(left) == operate(left, IR_visitNode(left.g, node.children[2]))
    IN visitRight(IR_visitNode(g, node.children[1]))

IR_visitUnaryOperation(g, node) ==
    LET operator == node.value
        emit(operandValue, temp) ==
            IF Threw(temp.g) THEN [g |-> temp.g, value |-> NoValue]
            ELSE IF operator = "-"
            THEN [g |-> Gen_addInstruction(temp.g,
                            IF operandValue.type = "double"
                            THEN IRInstruction("fsub", temp.value,
                                     << <<"double">>, <<"0.0", ",">>, operandValue.value >>,
                                     "double")
                            ELSE IRInstruction("sub", temp.value,
                                     << <<"i32">>, <<"0", ",">>, operandValue.value >>, "i32")),
                  value |-> Value(temp.value, operandValue.type)]
            ELSE IF operator = "!"
            THEN [g |-> Gen_addInstruction(temp.g,
                            IRInstruction("xor", temp.value,
                                << <<"i1">>, Append(operandValue.value, ","), <<"1">> >>,
                                "i1")),
                  value |-> Value(temp.value, operandValue.type)]
            ELSE [g |-> temp.g, value |-> operandValue]     \* & and &mut pass the operand on
        operate(operand) ==
            IF Threw(operand.g) \/ operand.value = NoValue
            THEN [g |-> operand.g, value |-> NoValue]
            ELSE emit(operand.value, Gen_getNextTemp(operand.g, "t"))
    IN operate(IR_visitNode(g, node.children[1]))

IR_visitIdentifier(g, node) ==
    LET variableName == node.value
        load(variable, temp) ==
            IF Threw(temp.g) THEN [g |-> temp.g, value |-> NoValue]
            ELSE [g |-> Gen_addInstruction(temp.g,
                            IRInstruction("load", temp.value,
                                << <<variable.elementType>>, <<variable.type>>,
                                   variable.value >>, variable.elementType)),
                  value |-> Value(temp.value, variable.elementType)]
        read(variable) ==
            IF variable.isAlloca THEN load(variable, Gen_getNextTemp(g, "load"))
            ELSE [g |-> g, value |-> Value(variable.value, variable.type)]
    IN IF variableName \in DOMAIN g.variables THEN read(g.variables[variableName])
       ELSE [g |-> Gen_throw(g, "Undefined variable: " \o variableName), value |-> NoValue]

\* the value of a StringLiteral node is the sequence of the characters of the text
IR_visitStringLiteral(g, node) ==
    LET stringValue == node.value
        known == {i \in 1..Len(g.stringLiterals) : g.stringLiterals[i] = stringValue}
        stringId == IF known # {} THEN (CHOOSE i \in known : TRUE) - 1 ELSE g.nextStringId
    IN [g |-> IF known # {} THEN g
              ELSE [g EXCEPT !.stringLiterals = Append(@, stringValue),
                             !.nextStringId = @ + 1],
        value |-> Value(<<"@", ".str." \o ToString(stringId)>>,
                        "[" \o ToString(Len(stringValue) + 1) \o " x i8]*")]

IR_visitPrintStatement(g, node) ==
    LET call(arg) ==
            IF Threw(arg.g) \/ arg.value = NoValue THEN [g |-> arg.g, value |-> NoValue]
            ELSE [g |-> Gen_addInstruction(arg.g,
                            setComment(IRInstruction("call", NoResult,
                                           << <<"void">>, <<"@", "print">>,
                                              <<"(" \o arg.value.type>>,
                                              Append(arg.value.value, ")") >>, Null),
                                       "Print statement")),
                  value |-> NoValue]
    IN call(IR_visitNode(g, node.children[1]))

IR_visitReturnStatement(g, node) ==
    LET return(r) ==
            IF Threw(r.g) \/ r.value = NoValue THEN [g |-> r.g, value |-> NoValue]
            ELSE [g |-> Gen_addInstruction(r.g,
                            IRInstruction("ret", NoResult,
                                << <<r.value.type>>, r.value.value >>, Null)),
                  value |-> NoValue]
    IN IF Len(node.children) > 0 THEN return(IR_visitNode(g, node.children[1]))
       ELSE [g |-> Gen_addInstruction(g, IRInstruction("ret", NoResult, << <<"void">> >>,
                                                        Null)),
             value |-> NoValue]

\* br label %name
branchTo(name) == IRInstruction("br", NoResult, << <<"label">>, <<"%", name>> >>, Null)

\* br i1 condition, label %ifTrue, label %ifFalse
branchOn(conditionValue, ifTrue, ifFalse) ==
    IRInstruction("br", NoResult,
        << <<"i1">>, Append(conditionValue.value, ","), <<"label">>, <<"%", ifTrue, ",">>,
           <<"label">>, <<"%", ifFalse>> >>, Null)

\* if (!block.terminated) this.currentFunction.addInstruction(instr), block being
\* the block the caller created, whichever block is the current one by now
Gen_closeBlock(g, block, instr) ==
    IF Threw(g) THEN g
    ELSE IF g.functions[g.currentFunction].basicBlocks[block].terminated THEN g
    ELSE Gen_addInstruction(g, instr)

\* the number of basic blocks of the current function (0 when there is none)
Gen_blocks(g) ==
    IF g.currentFunction = 0 THEN 0 ELSE Len(g.functions[g.currentFunction].basicBlocks)

IR_visitIfStatement(g, node) ==
    LET branches(g1, conditionValue, thenBlock, elseBlock, endBlock) ==
            LET thenDone ==
                    Gen_closeBlock(
                        IR_visitNode(
                            Gen_setCurrentBlock(
                                Gen_addInstruction(g1, branchOn(conditionValue,
                                                                "if.then", "if.else")),
                                thenBlock),
                            node.children[2]).g,
                        thenBlock, branchTo("if.end"))
                elseDone ==
                    Gen_closeBlock(
                        IF Len(node.children) >= 3
                        THEN IR_visitNode(Gen_setCurrentBlock(thenDone, elseBlock),
                                          node.children[3]).g
                        ELSE Gen_setCurrentBlock(thenDone, elseBlock),
                        elseBlock, branchTo("if.end"))
            IN Gen_setCurrentBlock(elseDone, endBlock)
        branch(condition) ==
            IF Threw(condition.g) \/ condition.value = NoValue
            THEN [g |-> condition.g, value |-> NoValue]
            ELSE [g |-> branches(Gen_createBasicBlock(Gen_createBasicBlock(
                                     Gen_createBasicBlock(condition.g, "if.then"),
                                     "if.else"), "if.end"),
                                 condition.value,
                                 Gen_blocks(condition.g) + 1, Gen_blocks(condition.g) + 2,
                                 Gen_blocks(condition.g) + 3),
                  value |-> NoValue]
    IN branch(IR_visitNode(g, node.children[1]))

IR_visitWhileStatement(g, node) ==
    LET loopHeader == Gen_blocks(g) + 1
        loopBody == Gen_blocks(g) + 2
        loopEnd == Gen_blocks(g) + 3
        test(condition) ==
            IF condition.value # NoValue
            THEN Gen_addInstruction(condition.g,
                     branchOn(condition.value, "while.body", "while.end"))
            ELSE condition.g
        header ==
            test(IR_visitNode(
                     Gen_setCurrentBlock(
                         Gen_addInstruction(
                             Gen_createBasicBlock(Gen_createBasicBlock(Gen_createBasicBlock(
                                 g, "while.header"), "while.body"), "while.end"),
                             branchTo("while.header")),
                         loopHeader),
                     node.children[1]))
        body ==
            Gen_closeBlock(IR_visitNode(Gen_setCurrentBlock(header, loopBody),
                                        node.children[2]).g,
                           loopBody, branchTo("while.header"))
    IN [g |-> Gen_setCurrentBlock(body, loopEnd), value |-> NoValue]

IR_visitNode(g, node) ==
    IF Threw(g) \/ node = NoNode THEN [g |-> g, value |-> NoValue]
    ELSE CASE node.type = "FunctionDeclaration" -> IR_visitFunctionDeclaration(g, node)
           [] node.type = "VariableDeclaration" -> IR_visitVariableDeclaration(g, node)
           [] node.type = "Assignment" -> IR_visitAssignment(g, node)
           [] node.type = "IfStatement" -> IR_visitIfStatement(g, node)
           [] node.type = "WhileStatement" -> IR_visitWhileStatement(g, node)
           [] node.type = "BinaryOperation" -> IR_visitBinaryOperation(g, node)
           [] node.type = "UnaryOperation" -> IR_visitUnaryOperation(g, node)
           [] node.type = "Identifier" -> IR_visitIdentifier(g, node)
           [] node.type = "IntegerLiteral" ->
                 [g |-> g, value |-> Value(<<ToString(node.value)>>, "i32")]
           [] node.type = "FloatLiteral" ->     \* the value is kept as its decimal text
                 [g |-> g, value |-> Value(<<node.value>>, "double")]
           [] node.type = "StringLiteral" -> IR_visitStringLiteral(g, node)
           [] node.type = "BooleanLiteral" ->
                 [g |-> g, value |-> Value(<<IF node.value THEN "1" ELSE "0">>, "i1")]
           [] node.type = "PrintStatement" -> IR_visitPrintStatement(g, node)
           [] node.type = "ReturnStatement" -> IR_visitReturnStatement(g, node)
           [] OTHER ->      \* Program, Block and the node types without a visit method
                 [g |-> IR_visitAll(g, node.children), value |-> NoValue]

\* parseInt of the texts that reach it, a decimal literal or the empty string:
\* [nan, n]
MaxLiteral == 2
parseInt(text) ==
    IF \E n \in 0..MaxLiteral : ToString(n) = text
    THEN [nan |-> FALSE, n |-> CHOOSE n \in 0..MaxLiteral : ToString(n) = text]
    ELSE [nan |-> TRUE, n |-> 0]

\* the pieces of an operand between its commas: operand.split(',')
RECURSIVE splitComma(_, _)
splitComma(pieces, part) ==
    IF pieces = <<>> THEN <<part>>
    ELSE IF Head(pieces) = "," THEN <<part>> \o splitComma(Tail(pieces), <<>>)
    ELSE splitComma(Tail(pieces), Append(part, Head(pieces)))

isConstant(value) == value = <<>> \/ Head(value) \notin {"%", "@"}

\* the text of what evaluateConstantOperation returns
evaluateConstantOperation(opcode, left, right) ==
    LET leftVal == parseInt(Concat(left))
        rightVal == parseInt(Concat(right))
    IN IF leftVal.nan \/ rightVal.nan THEN "NaN"
       ELSE CASE opcode = "add" -> ToString(leftVal.n + rightVal.n)
              [] opcode = "sub" -> ToString(leftVal.n - rightVal.n)
              [] opcode = "mul" -> ToString(leftVal.n * rightVal.n)

foldInstruction(instr) ==
    LET operands == splitComma(instr.operands[2], <<>>)
    IN IF instr.opcode \in {"add", "sub", "mul"} /\ Len(operands) = 2
          /\ isConstant(operands[1]) /\ isConstant(operands[2])
       THEN setComment(instr, "Constant folded: " \o Concat(operands[1]) \o " " \o instr.opcode
                \o " " \o Concat(operands[2]) \o " = "
                \o evaluateConstantOperation(instr.opcode, operands[1], operands[2]))
       ELSE instr

constantFolding(func) ==
    LET fold(block) ==
            [block EXCEPT !.instructions =
                [i \in 1..Len(block.instructions) |-> foldInstruction(block.instructions[i])]]
    IN [func EXCEPT !.basicBlocks =
           [b \in 1..Len(func.basicBlocks) |-> fold(func.basicBlocks[b])]]

\* every instruction of the function
instructionsOf(func) ==
    UNION {{func.basicBlocks[b].instructions[i] :
               i \in 1..Len(func.basicBlocks[b].instructions)} :
           b \in 1..Len(func.basicBlocks)}

\* the Set usedValues: the operand strings that start with '%'
usedValues(func) ==
    {operand \in UNION {{instr.operands[o] : o \in 1..Len(instr.operands)} :
                        instr \in instructionsOf(func)} :
        operand # <<>> /\ Head(operand) = "%"}

deadCodeElimination(func) ==
    LET used == usedValues(func)
        keep(instr) == instr.result = NoResult \/ instr.result \in used
    IN [func EXCEPT !.basicBlocks =
           [b \in 1..Len(func.basicBlocks) |->
               [func.basicBlocks[b] EXCEPT !.instructions = SelectSeq(@, keep)]]]

applyOptimizations(g) ==
    [g EXCEPT !.functions =
        [f \in 1..Len(g.functions) |-> deadCodeElimination(constantFolding(g.functions[f]))]]

\* value.replace(/\n/g, '\\0A').replace(/\t/g, '\\09') on the characters of a literal
escapeString(chars) ==
    Concat([i \in 1..Len(chars) |->
               CASE chars[i] = "\n" -> "\\0A" [] chars[i] = "\t" -> "\\09" [] OTHER -> chars[i]])

generateModule(g) ==
    "; MiniRust Compiler - Generated LLVM IR\n\n"
    \o Concat([i \in 1..Len(g.stringLiterals) |->
                  "@.str." \o ToString(i - 1) \o " = private unnamed_addr constant ["
                  \o ToString(Len(g.stringLiterals[i]) + 1) \o " x i8] c\""
                  \o escapeString(g.stringLiterals[i]) \o "\\00\"\n"])
    \o (IF Len(g.stringLiterals) > 0 THEN "\n" ELSE "")
    \o "; External function declarations\n"
    \o "declare void @print(i32)\n"
    \o "declare void @print(double)\n"
    \o "declare void @print(i8*)\n\n"
    \o Concat([f \in 1..Len(g.functions) |-> Function_toString(g.functions[f]) \o "\n"])

\* generate(ast, optimizations): the generator after the call and what it returns
generate(g, ast, optimizations) ==
    LET caught(g1) ==
            [g1 EXCEPT !.thrown = NoError,
                       !.errors = Append(@, [type |-> "IRGenerationError",
                                             message |-> g1.thrown, line |-> 0, column |-> 0])]
        failed(g1) ==
            [g |-> g1,
             result |-> [ir |-> "; IR generation failed\n", errors |-> g1.errors,
                         success |-> FALSE]]
        done(g1) ==
            [g |-> g1,
             result |-> [ir |-> generateModule(g1), errors |-> g1.errors,
                         success |-> Len(g1.errors) = 0]]
        finish(g1) ==
            IF Threw(g1) THEN failed(caught(g1))
            ELSE done(IF optimizations THEN applyOptimizations(g1) ELSE g1)
    IN finish(IR_visitNode(IRGenerator_new, ast).g)

----------------------------------------------------------------------------
(* MiniRustCompilerApp *)

\* the text loadDefaultExample sets, character by character
defaultCode == <<
    "f","n"," ","m","a","i","n","(",")"," ","{","\n"," "," "," "," ","l","e","t"," ",
    "m","u","t"," ","x",":"," ","i","3","2"," ","="," ","1","0",";","\n"," "," "," ",
    " ","l","e","t"," ","y",":"," ","i","3","2"," ","="," ","2","0",";","\n"," "," ",
    " "," ","\n"," "," "," "," ","i","f"," ","x"," ","<"," ","y"," ","{","\n"," "," ",
    " "," "," "," "," "," ","x"," ","="," ","x"," ","+"," ","5",";","\n"," "," "," ",
    " "," "," "," "," ","p","r","i","n","t","(","x",")",";","\n"," "," "," "," ","}",
    "\n"," "," "," "," ","\n"," "," "," "," ","l","e","t"," ","m","u","t"," ","i",":",
    " ","i","3","2"," ","="," ","0",";","\n"," "," "," "," ","w","h","i","l","e"," ",
    "i"," ","<"," ","3"," ","{","\n"," "," "," "," "," "," "," "," ","p","r","i","n",
    "t","(","i",")",";","\n"," "," "," "," "," "," "," "," ","i"," ","="," ","i"," ",
    "+"," ","1",";","\n"," "," "," "," ","}","\n","}" >>

\* the compilationResults of the constructor and of clearResults; the null
\* token list is the empty one (tokenize returns no empty list)
noResults ==
    [tokens |-> <<>>, ast |-> NoNode, semantic |-> NoNode, ir |-> Null,
     errors |-> <<>>, warnings |-> <<>>]

clearResults(a) == [a EXCEPT !.compilationResults = noResults]

setSourceCode(a, code) == clearResults([a EXCEPT !.currentSourceCode = code])

\* the application after its constructor (loadDefaultExample included)
App_new == setSourceCode([currentSourceCode |-> <<>>, compilationResults |-> noResults],
                         defaultCode)

\* !code.trim(): nothing but white space
isBlank(code) == \A i \in 1..Len(code) : code[i] \in {" ", "\t", "\n", "\r"}

\* the catch block of compileCode: an Error carries no line and no column
caught(results, message) ==
    [results EXCEPT !.errors = Append(@, [type |-> "CompilationError", message |-> message,
                                          line |-> NullPos, column |-> NullPos])]

stageDone(name, errors) == [stage |-> name, errors |-> Len(errors)]

\* compileCode with the two check boxes as read at the time of the call: the
\* application, its four stage objects and the stages entered. Each step of
\* the try block is an operator of what the steps before it produced.
compileCode(a, lx, p, sem, g, checkOwnership, optimizeCode) ==
    LET out(results, lx1, p1, sem1, g1, ran) ==
            [app |-> [a EXCEPT !.compilationResults = results],
             lexer |-> lx1, parser |-> p1, analyzer |-> sem1, irgen |-> g1, ran |-> ran]
        step4(r3, lexed, p1, sem1, ast, ran3, generated) ==
            out([r3 EXCEPT !.ir = generated.result.ir,
                           !.errors = @ \o generated.result.errors],
                lexed, p1, sem1, generated.g,
                Append(ran3, stageDone("ir", generated.result.errors)))
        semantic(r2, lexed, p1, sem1, ast, ran2, semanticResult) ==
            LET r3 == [r2 EXCEPT !.semantic = semanticResult,
                                 !.errors = @ \o semanticResult.errors,
                                 !.warnings = @ \o semanticResult.warnings]
                ran3 == Append(ran2, stageDone("semantic", semanticResult.errors))
            IN IF Len(semanticResult.errors) > 0
               THEN out(caught(r3, "Semantic analysis failed"), lexed, p1, sem1, g, ran3)
               ELSE step4(r3, lexed, p1, sem1, ast, ran3, generate(g, ast, optimizeCode))
        step3(r2, lexed, p1, ast, ran2, sem1) ==
            semantic(r2, lexed, p1, sem1, ast, ran2, analyzeResult(sem1))
        step2(r1, lexed, parsed) ==
            LET r2 == [r1 EXCEPT !.ast = parsed.ast, !.errors = @ \o parsed.errors]
                ran1 == <<stageDone("lexer", lexed.errors)>>
            IN IF parsed.thrown # NoError
               THEN out(caught(r1, parsed.thrown), lexed, parsed.p, sem, g,
                        Append(ran1, stageDone("parser", <<>>)))
               ELSE IF Len(parsed.errors) > 0 \/ parsed.ast = NoNode
               THEN out(caught(r2, "Parsing failed"), lexed, parsed.p, sem, g,
                        Append(ran1, stageDone("parser", parsed.errors)))
               ELSE step3(r2, lexed, parsed.p, parsed.ast,
                          Append(ran1, stageDone("parser", parsed.errors)),
                          analyze(sem, parsed.ast, checkOwnership))
        step1(lexed) ==
            LET r1 == [noResults EXCEPT !.tokens = lexed.tokens, !.errors = @ \o lexed.errors]
            IN IF Len(lexed.errors) > 0
               THEN out(caught(r1, "Lexical analysis failed"), lexed, p, sem, g,
                        <<stageDone("lexer", lexed.errors)>>)
               ELSE step2(r1, lexed, parse(p, lexed.tokens))
    IN step1(tokenize(lx, a.currentSourceCode))

----------------------------------------------------------------------------
(* Inputs of the analyzer: programs as the parser's node constructions shape *)
(* them, with the positions their tokens have in the one-statement-per-line  *)
(* source text.                                                              *)

Ident(name, line, column) == PrimaryNode("Identifier", name, line, column)
IntLit(n, line, column) == PrimaryNode("IntegerLiteral", n, line, column)

SemStmtKinds == 1..8

SemStmt(k, l, c) ==
    CASE k = 1 ->   \* let mut x: i32 = 1;
            VariableDeclarationNode("x", TRUE, "i32", <<IntLit(1, l, c + 17)>>, l, c)
      [] k = 2 ->   \* let y = &x;
            VariableDeclarationNode("y", FALSE, Null,
                <<UnaryOperationNode("&", Ident("x", l, c + 9), l, c + 8)>>, l, c)
      [] k = 3 ->   \* let z = &mut x;
            VariableDeclarationNode("z", FALSE, Null,
                <<UnaryOperationNode("&mut", Ident("x", l, c + 13), l, c + 8)>>, l, c)
      [] k = 4 ->   \* let x: i32 = 1;
            VariableDeclarationNode("x", FALSE, "i32", <<IntLit(1, l, c + 13)>>, l, c)
      [] k = 5 ->   \* x = 2;
            AssignmentNode(Ident("x", l, c), IntLit(2, l, c + 4), l, c + 2)
      [] k = 6 ->   \* print(x);
            PrintStatementNode(Ident("x", l, c + 6), l, c)
      [] k = 7 ->   \* { let w: i32 = 1; }
            BlockNode(<<VariableDeclarationNode("w", FALSE, "i32",
                            <<IntLit(1, l, c + 15)>>, l, c + 2)>>, l, c)
      [] k = 8 ->   \* let b = true;
            VariableDeclarationNode("b", FALSE, Null,
                <<PrimaryNode("BooleanLiteral", TRUE, l, c + 8)>>, l, c)

\* the statements of kinds ks on consecutive lines from line l, at column c
SemBody(ks, l, c) == [i \in 1..Len(ks) |-> SemStmt(ks[i], l + i - 1, c)]

SemForms == {"global", "fn", "global+fn"}

\* where the first statement of the body stands in the source text of each form
SemBodyLine(form) == CASE form = "global" -> 1 [] form = "fn" -> 2 [] form = "global+fn" -> 3
SemBodyColumn(form) == IF form = "global" THEN 1 ELSE 5

SemProgram(form, ks) ==
    LET body == SemBody(ks, SemBodyLine(form), SemBodyColumn(form))
    IN CASE form = "global" ->         \* the statements at the top level
               ProgramNode(body)
         [] form = "fn" ->             \* fn main() { statements }
               ProgramNode(<<FunctionDeclarationNode("main", <<>>, Null,
                                 BlockNode(body, 1, 11), 1, 1)>>)
         [] form = "global+fn" ->      \* let x: i32 = 7; fn f(a: i32) { statements }
               ProgramNode(<<VariableDeclarationNode("x", FALSE, "i32",
                                 <<IntLit(7, 1, 14)>>, 1, 1),
                             FunctionDeclarationNode("f", <<[name |-> "a", type |-> "i32"]>>,
                                 Null, BlockNode(body, 2, 14), 2, 1)>>)

SemInputs ==
    {[ast |-> SemProgram(form, ks), form |-> form, kinds |-> ks, checkOwnership |-> co] :
        form \in SemForms, ks \in SeqsUpTo(SemStmtKinds, MaxBodyLen), co \in BOOLEAN}

----------------------------------------------------------------------------
(* Inputs of the IR generator: one function whose body statements are a    *)
(* simple statement inside up to MaxNest if / while statements, each body  *)
(* statement on one line of the source text.                               *)

IRSimpleKinds == 1..8

\* x < 1, with x at column c
IRCondition(l, c) == BinaryOperationNode("<", Ident("x", l, c), IntLit(1, l, c + 4), l, c + 2)

\* x + 1, with x at column c
IRSum(l, c) == BinaryOperationNode("+", Ident("x", l, c), IntLit(1, l, c + 4), l, c + 2)

IRSimple(k, l, c) ==
    CASE k = 1 ->   \* let x: i32 = 1;
            VariableDeclarationNode("x", FALSE, "i32", <<IntLit(1, l, c + 13)>>, l, c)
      [] k = 2 ->   \* let y: i32 = x + 1;
            VariableDeclarationNode("y", FALSE, "i32", <<IRSum(l, c + 13)>>, l, c)
      [] k = 3 ->   \* print(x);
            PrintStatementNode(Ident("x", l, c + 6), l, c)
      [] k = 4 ->   \* return x;
            ReturnStatementNode(<<Ident("x", l, c + 7)>>, l, c)
      [] k = 5 ->   \* x = x + 1;
            AssignmentNode(Ident("x", l, c), IRSum(l, c + 4), l, c + 2)
      [] k = 6 ->   \* let z: i32 = 1 + 2;
            VariableDeclarationNode("z", FALSE, "i32",
                <<BinaryOperationNode("+", IntLit(1, l, c + 13), IntLit(2, l, c + 17),
                                      l, c + 15)>>, l, c)
      [] k = 7 ->   \* let z: i32 = 2 * x;
            VariableDeclarationNode("z", FALSE, "i32",
                <<BinaryOperationNode("*", IntLit(2, l, c + 13), Ident("x", l, c + 17),
                                      l, c + 15)>>, l, c)
      [] k = 8 ->   \* let b = true;
            VariableDeclarationNode("b", FALSE, Null,
                <<PrimaryNode("BooleanLiteral", TRUE, l, c + 8)>>, l, c)

IRWrapKinds == 1..3

\* the column of the statement S inside a wrapping statement that starts at column c
IRInner(w, c) == CASE w = 1 -> c + 11 [] w = 2 -> c + 30 [] w = 3 -> c + 14

IRWrap(w, inner, l, c) ==
    CASE w = 1 ->   \* if x < 1 { S }
            IfStatementNode(IRCondition(l, c + 3), BlockNode(<<inner>>, l, c + 9), <<>>, l, c)
      [] w = 2 ->   \* if x < 1 { print(x); } else { S }
            IfStatementNode(IRCondition(l, c + 3),
                BlockNode(<<IRSimple(3, l, c + 11)>>, l, c + 9),
                <<BlockNode(<<inner>>, l, c + 28)>>, l, c)
      [] w = 3 ->   \* while x < 1 { S }
            WhileStatementNode(IRCondition(l, c + 6), BlockNode(<<inner>>, l, c + 12), l, c)

RECURSIVE IRStmt(_, _, _, _)
IRStmt(wraps, k, l, c) ==
    IF wraps = <<>> THEN IRSimple(k, l, c)
    ELSE IRWrap(Head(wraps), IRStmt(Tail(wraps), k, l, IRInner(Head(wraps), c)), l, c)

IRStmtDescs == {[wraps |-> w, stmt |-> k] : w \in SeqsUpTo(IRWrapKinds, MaxNest),
                                            k \in IRSimpleKinds}

IRBody(ds) == [i \in 1..Len(ds) |-> IRStmt(ds[i].wraps, ds[i].stmt, i + 1, 5)]

IRForms == {"fn", "fn(x)"}

IRProgram(form, ds) ==
    CASE form = "fn" ->         \* fn main() { statements }
            ProgramNode(<<FunctionDeclarationNode("main", <<>>, Null,
                              BlockNode(IRBody(ds), 1, 11), 1, 1)>>)
      [] form = "fn(x)" ->      \* fn f(x: i32) -> i32 { statements }
            ProgramNode(<<FunctionDeclarationNode("f", <<[name |-> "x", type |-> "i32"]>>,
                              "i32", BlockNode(IRBody(ds), 1, 21), 1, 1)>>)

\* fn f(x: i32) -> i32 { } fn main() { statement }: a second function after
\* one that has the parameter x
IRTwoFunctions(ds) ==
    ProgramNode(<<FunctionDeclarationNode("f", <<[name |-> "x", type |-> "i32"]>>, "i32",
                      BlockNode(<<>>, 1, 21), 1, 1),
                  FunctionDeclarationNode("main", <<>>, Null,
                      BlockNode(IRBody(ds), 1, 35), 1, 25)>>)

IRInputs ==
    {[ast |-> IRProgram(form, ds), form |-> form, stmts |-> ds] :
        form \in IRForms, ds \in SeqsUpTo(IRStmtDescs, MaxIRBody)}
    \cup {[ast |-> IRTwoFunctions(ds), form |-> "fn(x),fn", stmts |-> ds] :
             ds \in SeqsUpTo(IRStmtDescs, 1)}

----------------------------------------------------------------------------
(* Inputs of the lexer and of the application: source texts put together    *)
(* from fragments.                                                          *)

LexFragments ==
    { <<"&">>, <<"m", "u", "t">>, <<" ", "x">>, <<"-">>, <<">">>, <<"=">>, <<"!">>, <<"<">>,
      <<"|">>, <<"\"">>, <<"/">>, <<"*">>, <<"\n">>, <<"1">>, <<"@">>, <<".">> }

LexSources == {Flatten(fs) : fs \in SeqsUpTo(LexFragments, MaxFrags)}

AppFragments == { <<" ">>, <<"x">>, <<"@">>, <<"\n">>,
                  <<"f", "n", " ", "f", "(", ")", "{", "}">> }

\* one statement each: a declaration whose name is missing before a second
\* declaration, and expressions of one and of two precedence levels
recoverySource == <<"l","e","t"," ","l","e","t"," ","x"," ","="," ","1",";">>
leftSource == <<"a"," ","-"," ","b"," ","-"," ","c",";">>
rightSource == <<"a"," ","="," ","b"," ","="," ","c",";">>
tighterSource == <<"2"," ","+"," ","3"," ","*"," ","4",";">>
functionSource == <<"f","n"," ","f","(","x",":"," ","i","3","2",")"," ","-",">"," ",
                    "i","3","2"," ","{"," ","l","e","t"," ","m","u","t"," ","y",":"," ",
                    "i","3","2"," ","="," ","x",";"," ","}">>

\* a function whose body has a stray `)` before the statement `x;`
bodyErrorSource == <<"f","n"," ","f","(",")","{"," ",")"," ","x",";"," ","}">>

ParserSources == {recoverySource, leftSource, rightSource, tighterSource, functionSource,
                  bodyErrorSource}

AppSources == {Flatten(fs) : fs \in SeqsUpTo(AppFragments, MaxAppFrags)} \cup ParserSources

----------------------------------------------------------------------------
(* State machines *)

NoInput == [ast |-> ProgramNode(<<>>), form |-> "none", kinds |-> <<>>,
            checkOwnership |-> FALSE]

\* the parts of the state a specification leaves as the constructors made them
lexerVars == <<lexer, lexPc>>
analyzerVars == <<analyzer, semIn, semOut>>
generatorVars == <<irgen, irIn, irOut>>
appVars == <<parser, app, stagesRun>>

LexerIdle == lexer = Lexer_new /\ lexPc = "idle"
AnalyzerIdle == analyzer = Analyzer_new /\ semIn = NoInput /\ semOut = <<>>
GeneratorIdle == irgen = IRGenerator_new /\ irIn = NoInput /\ irOut = <<>>
AppIdle == parser = Parser_new /\ app = App_new /\ stagesRun = <<>>

\* One lexer object and one tokenize call on it, taken one iteration of its
\* loop at a time.
LexInit == LexerIdle /\ AnalyzerIdle /\ GeneratorIdle /\ AppIdle

LexStart ==
    /\ lexPc = "idle"
    /\ \E source \in LexSources : lexer' = tokenizeStart(lexer, source)
    /\ lexPc' = "scan"
    /\ UNCHANGED <<analyzerVars, generatorVars, appVars>>

LexStep ==
    /\ lexPc = "scan"
    /\ lexer.position < Len(lexer.source)
    /\ lexer' = tokenizeStep(lexer)
    /\ UNCHANGED <<lexPc, analyzerVars, generatorVars, appVars>>

LexEnd ==
    /\ lexPc = "scan"
    /\ lexer.position >= Len(lexer.source)
    /\ lexer' = tokenizeEnd(lexer)
    /\ lexPc' = "returned"
    /\ UNCHANGED <<analyzerVars, generatorVars, appVars>>

LexNext == LexStart \/ LexStep \/ LexEnd

SpecLex == LexInit /\ [][LexNext]_vars

\* One analyzer object, analyze called on it again and again with the same tree
\* (the application keeps one analyzer for all its compile calls).
SemInit ==
    /\ analyzer = Analyzer_new
    /\ semIn \in SemInputs
    /\ semOut = <<>>
    /\ LexerIdle /\ GeneratorIdle /\ AppIdle

SemAnalyze ==
    /\ Len(semOut) < MaxCalls
    /\ analyzer' = analyze(analyzer, semIn.ast, semIn.checkOwnership)
    /\ semOut' = Append(semOut, analyzeResult(analyzer'))
    /\ UNCHANGED <<semIn, lexerVars, generatorVars, appVars>>

SemNext == SemAnalyze

SpecSem == SemInit /\ [][SemNext]_vars

\* One generator object, generate called on it with the same tree, with or
\* without optimizations.
IRInit ==
    /\ irgen = IRGenerator_new
    /\ irIn \in IRInputs
    /\ irOut = <<>>
    /\ LexerIdle /\ AnalyzerIdle /\ AppIdle

IRGenerate(optimizations) ==
    /\ Len(irOut) < MaxCalls
    /\ \E r \in {generate(irgen, irIn.ast, optimizations)} :
          /\ irgen' = r.g
          /\ irOut' = Append(irOut, [optimizations |-> optimizations, result |-> r.result,
                                     functions |-> r.g.functions])
    /\ UNCHANGED <<irIn, lexerVars, analyzerVars, appVars>>

IRNext == \E optimizations \in BOOLEAN : IRGenerate(optimizations)

SpecIR == IRInit /\ [][IRNext]_vars

\* The application: its user sets the source text and presses Compile, with
\* the two check boxes in either position. One application object, and so one
\* object of each stage, serves every compile call.
Init == LexerIdle /\ AnalyzerIdle /\ GeneratorIdle /\ AppIdle

SetSourceCode ==
    /\ \E code \in AppSources : app' = setSourceCode(app, code)
    /\ stagesRun' = <<>>
    /\ UNCHANGED <<lexerVars, analyzerVars, generatorVars, parser>>

CompileCode ==
    /\ ~isBlank(app.currentSourceCode)
    /\ \E checkOwnership, optimizeCode \in BOOLEAN :
          \E r \in {compileCode(app, lexer, parser, analyzer, irgen,
                                checkOwnership, optimizeCode)} :
             /\ app' = r.app
             /\ lexer' = r.lexer
             /\ parser' = r.parser
             /\ analyzer' = r.analyzer
             /\ irgen' = r.irgen
             /\ stagesRun' = r.ran
    /\ lexPc' = "returned"
    /\ UNCHANGED <<semIn, semOut, irIn, irOut>>

\* Compile pressed with nothing but white space in the editor: the call
\* returns before it clears or runs anything
CompileBlank ==
    /\ isBlank(app.currentSourceCode)
    /\ UNCHANGED vars

Next == SetSourceCode \/ CompileCode \/ CompileBlank

Spec == Init /\ [][Next]_vars

----------------------------------------------------------------------------
(* Properties of the analyzer, under SpecSem *)

\* the indices of the diagnostics of one type and message
DiagnosticsWith(diags, type, message) ==
    {i \in 1..Len(diags) : diags[i].type = type /\ diags[i].message = message}

\* every name a tree defines: its function, parameter and variable names
RECURSIVE DefinedNames(_)
DefinedNames(node) ==
    (IF node.type \in {"FunctionName", "ParameterName", "VariableName"}
     THEN {node.value} ELSE {})
    \cup UNION {DefinedNames(node.children[i]) : i \in 1..Len(node.children)}

\* C2: a second analysis of the same tree with the same flag, on the same
\* analyzer, returns the diagnostics of the first one: nothing the first call
\* defined is visible to the second.
C2_SecondCallSameDiagnostics ==
    Len(semOut) = 2 =>
        /\ semOut[2].errors = semOut[1].errors
        /\ semOut[2].warnings = semOut[1].warnings

\* C5: with ownership checking on, `let mut x: i32 = 1; let y = &x;
\* let z = &mut x;` in any scope, function bodies included, gives in a first
\* analysis exactly one OwnershipError "Cannot create mutable borrow: 'x' is
\* already borrowed", at the position of the `&mut x` expression.
C5_MutableBorrowOfBorrowed ==
    (Len(semOut) >= 1 /\ semIn.checkOwnership /\ semIn.kinds = <<1, 2, 3>>) =>
        LET errors == semOut[1].errors
            hits == DiagnosticsWith(errors, "OwnershipError",
                        "Cannot create mutable borrow: 'x' is already borrowed")
        IN /\ Cardinality(hits) = 1
           /\ \A i \in hits : /\ errors[i].line = SemBodyLine(semIn.form) + 2
                               /\ errors[i].column = SemBodyColumn(semIn.form) + 8

\* C9: a function body that is one `let` whose variable is never read gives in
\* a first analysis exactly one UnusedVariable warning, naming that variable,
\* and the analysis succeeds.
C9_UnusedLocalWarned ==
    \A k \in {4, 8} :
        (Len(semOut) >= 1 /\ semIn.form = "fn" /\ semIn.kinds = <<k>>) =>
            LET warnings == semOut[1].warnings
                name == IF k = 4 THEN "x" ELSE "b"
            IN /\ semOut[1].success
               /\ Cardinality({i \in 1..Len(warnings) :
                                  warnings[i].type = "UnusedVariable"}) = 1
               /\ Cardinality(DiagnosticsWith(warnings, "UnusedVariable",
                      "Variable '" \o name \o "' is declared but never used")) = 1

\* C10: the symbol table a first analysis returns has an entry for every name
\* the tree defines, names of popped function and block scopes included, and
\* for a name the global scope defines too the entry is the global one.
C10_SymbolTableHasEveryName ==
    Len(semOut) >= 1 =>
        LET table == semOut[1].symbolTable
        IN /\ \A name \in DefinedNames(semIn.ast) :
                  \E i \in 1..Len(table) : table[i].name = name
           /\ semIn.form = "global+fn" =>
                  \A i \in 1..Len(table) : table[i].name = "x" => table[i].line = 1

\* what the name x means at statement i of the body: the first `let` of x
\* before it in the body decides (a second one in the same scope is refused),
\* and without one the global `let x: i32 = 7;` of the form that has it
ResolvedX(form, ks, i) ==
    LET lets == {j \in 1..(i - 1) : ks[j] \in {1, 4}}
    IN IF lets # {}
       THEN IF ks[CHOOSE j \in lets : \A k \in lets : j <= k] = 1
            THEN "mutable" ELSE "immutable"
       ELSE IF form = "global+fn" THEN "immutable" ELSE "undefined"

\* the positions of the statements `x = 2;` of the body whose x is not mutable
ImmutableAssignments(form, ks) ==
    {<<SemBodyLine(form) + i - 1, SemBodyColumn(form) + 2>> :
        i \in {j \in 1..Len(ks) : ks[j] = 5 /\ ResolvedX(form, ks, j) = "immutable"}}

\* C11: in a first analysis every assignment `x = 2;` whose x resolves to a
\* symbol that is not mutable gives exactly one OwnershipError "Cannot assign
\* to immutable variable 'x'", at the position of the assignment, and an
\* assignment to an x declared with `mut` (or to no symbol) gives none.
C11_AssignmentToImmutable ==
    Len(semOut) >= 1 =>
        LET errors == semOut[1].errors
            hits == DiagnosticsWith(errors, "OwnershipError",
                        "Cannot assign to immutable variable 'x'")
            expected == ImmutableAssignments(semIn.form, semIn.kinds)
        IN /\ Cardinality(hits) = Cardinality(expected)
           /\ {<<errors[i].line, errors[i].column>> : i \in hits} = expected

\* `fn main() { let x: i32 = 1; x = 2; }` analysed: the one error is there
C11_Reached ==
    /\ Len(semOut) >= 1
    /\ semIn.form = "fn" /\ semIn.kinds = <<4, 5>>
    /\ Cardinality(DiagnosticsWith(semOut[1].errors, "OwnershipError",
                       "Cannot assign to immutable variable 'x'")) = 1

symbolTypes == {"i32", "f64", "bool", "str", "void", "function", "unknown"}

\* C21: the type of every symbol the analyzer holds is one of i32, f64, bool,
\* str, void, function, unknown; no borrow type `&T` or `&mut T` is stored,
\* also for a `let` without annotation whose initializer is a borrow.
C21_SymbolTypesClosed ==
    \A l \in 1..Len(analyzer.scopes) :
        \A i \in 1..Len(analyzer.scopes[l]) : analyzer.scopes[l][i].type \in symbolTypes

\* the names the programs of the model borrow or define
borrowedNames == {"x", "y", "z", "w", "b", "a", "f", "main"}

\* the messages of the OwnershipErrors the borrow-count analysis reports
conflictMessages ==
    UNION {{"Cannot create mutable borrow: '" \o n \o "' is already mutably borrowed",
            "Cannot create mutable borrow: '" \o n \o "' is already borrowed",
            "Cannot create immutable borrow: '" \o n \o "' is already mutably borrowed"} :
           n \in borrowedNames}

\* an analyze step leaves the two borrow counters of every symbol it keeps as
\* they were, and a symbol it defines has both at 0
CountersKept ==
    \A l \in 1..Len(analyzer'.scopes) :
        \A i \in 1..Len(analyzer'.scopes[l]) :
            LET after == analyzer'.scopes[l][i]
            IN IF l <= Len(analyzer.scopes) /\ i <= Len(analyzer.scopes[l])
               THEN /\ after.borrowCount = analyzer.scopes[l][i].borrowCount
                    /\ after.mutableBorrowCount = analyzer.scopes[l][i].mutableBorrowCount
               ELSE after.borrowCount = 0 /\ after.mutableBorrowCount = 0

\* no analyze call so far returned an ownership trace or a borrow conflict
NoOwnershipOutput ==
    \A c \in 1..Len(semOut) :
        /\ semOut[c].ownershipInfo = <<>>
        /\ \A i \in 1..Len(semOut[c].errors) :
               ~(/\ semOut[c].errors[i].type = "OwnershipError"
                 /\ semOut[c].errors[i].message \in conflictMessages)

\* C22: with checkOwnership = false every analyze call returns an empty
\* ownership trace and no "already borrowed" / "already mutably borrowed"
\* OwnershipError, and leaves borrowCount and mutableBorrowCount of every
\* symbol unchanged, whatever `&` and `&mut` expressions the program has.
C22_NoOwnershipPassWhenOff ==
    /\ [][~semIn.checkOwnership => CountersKept]_vars
    /\ [](~semIn.checkOwnership => NoOwnershipOutput)

\* `let mut x: i32 = 1; let y = &x; let z = &mut x;` analysed twice with
\* checkOwnership = false
C22_Reached ==
    /\ ~semIn.checkOwnership /\ semIn.form = "global" /\ semIn.kinds = <<1, 2, 3>>
    /\ Len(semOut) = 2
    /\ semOut[2].ownershipInfo = <<>>
    /\ \E i \in 1..Len(analyzer.scopes[1]) :
           analyzer.scopes[1][i].name = "x" /\ analyzer.scopes[1][i].borrowCount = 0

\* no symbol is mutably borrowed twice, or mutably and immutably at once
BorrowCountersConsistent ==
    \A l \in 1..Len(analyzer.scopes) :
        \A i \in 1..Len(analyzer.scopes[l]) :
            LET symbol == analyzer.scopes[l][i]
            IN /\ symbol.mutableBorrowCount <= 1
               /\ ~(symbol.mutableBorrowCount > 0 /\ symbol.borrowCount > 0)

\* an analyze step lowers no counter of a symbol the analyzer keeps
CountersGrow ==
    \A l \in 1..Len(analyzer.scopes) :
        \A i \in 1..Len(analyzer.scopes[l]) :
            /\ l <= Len(analyzer'.scopes) /\ i <= Len(analyzer'.scopes[l])
            /\ analyzer'.scopes[l][i].name = analyzer.scopes[l][i].name
            /\ analyzer'.scopes[l][i].borrowCount >= analyzer.scopes[l][i].borrowCount
            /\ analyzer'.scopes[l][i].mutableBorrowCount
                   >= analyzer.scopes[l][i].mutableBorrowCount

\* C26: between the analyze calls on one analyzer every symbol has
\* mutableBorrowCount <= 1 and never mutableBorrowCount > 0 together with
\* borrowCount > 0, whatever `&` and `&mut` expressions were analysed, and no
\* call lowers a counter.
C26_BorrowCounters ==
    /\ [][CountersGrow]_vars
    /\ []BorrowCountersConsistent

\* `let mut x: i32 = 1; let z = &mut x; let z = &mut x;` analysed twice with
\* the ownership pass: x is mutably borrowed once, every later `&mut x` refused
C26_Reached ==
    /\ semIn.checkOwnership /\ semIn.form = "global" /\ semIn.kinds = <<1, 3, 3>>
    /\ Len(semOut) = 2
    /\ \E i \in 1..Len(analyzer.scopes[1]) :
           /\ analyzer.scopes[1][i].name = "x"
           /\ analyzer.scopes[1][i].mutableBorrowCount = 1
    /\ Cardinality(DiagnosticsWith(semOut[2].errors, "OwnershipError",
           "Cannot create mutable borrow: 'x' is already mutably borrowed")) = 2

\* the numbers of FunctionDeclaration and Block nodes that enclose the nodes of
\* a tree whose root has n of them around it
RECURSIVE EnclosingCounts(_, _)
EnclosingCounts(node, n) ==
    {n} \cup UNION {EnclosingCounts(node.children[i],
                        IF node.type \in {"FunctionDeclaration", "Block"} THEN n + 1 ELSE n) :
                    i \in 1..Len(node.children)}

\* the names the statements at the top level of a program define
TopLevelNames(ast) ==
    {FindFirst(ast.children[i].children, {"FunctionName", "VariableName"}).value :
        i \in {j \in 1..Len(ast.children) :
                  ast.children[j].type \in {"FunctionDeclaration", "VariableDeclaration"}}}

\* analyze is back in the global scope, and what the tree defines inside
\* functions and blocks was not defined there
ScopesBalanced ==
    /\ Len(analyzer.scopes) = 1
    /\ {analyzer.scopes[1][i].name : i \in 1..Len(analyzer.scopes[1])}
           \subseteq {"print"} \cup TopLevelNames(semIn.ast)

----------------------------------------------------------------------------
(* Properties of the IR generator, under SpecIR *)

terminators == {"br", "ret", "br_cond"}

\* the name in an operand: its "%" and the piece after it, without what was appended
operandName(operand) ==
    IF Len(operand) >= 2 /\ operand[1] = "%" THEN <<operand[1], operand[2]>> ELSE <<>>

\* the result names the instructions of a function define
resultsOf(func) == {instr.result : instr \in instructionsOf(func)} \ {NoResult}

\* C6: in every function a successful generate call leaves, every basic block
\* ends with a terminator and holds no other terminator, whatever the nesting
\* of if and while statements in the body.
C6_EveryBlockEndsWithOneTerminator ==
    \A c \in 1..Len(irOut) :
        irOut[c].result.success =>
            \A f \in 1..Len(irOut[c].functions) :
                \A b \in 1..Len(irOut[c].functions[f].basicBlocks) :
                    LET instructions == irOut[c].functions[f].basicBlocks[b].instructions
                        n == Len(instructions)
                    IN /\ n > 0
                       /\ instructions[n].opcode \in terminators
                       /\ \A i \in 1..(n - 1) : instructions[i].opcode \notin terminators

\* C7: of two successful generate calls on the same tree, one without and one
\* with optimizations, every result name the optimized function lost is the
\* name in no operand of an instruction the optimized function kept.
C7_RemovedResultsAreUnused ==
    \A c, d \in 1..Len(irOut) :
        (/\ ~irOut[c].optimizations /\ irOut[d].optimizations
         /\ irOut[c].result.success /\ irOut[d].result.success) =>
            \A f \in 1..Len(irOut[d].functions) :
                \A removed \in resultsOf(irOut[c].functions[f])
                                   \ resultsOf(irOut[d].functions[f]) :
                    \A instr \in instructionsOf(irOut[d].functions[f]) :
                        \A o \in 1..Len(instr.operands) :
                            operandName(instr.operands[o]) # removed

\* C8: in every function a successful generate call leaves, no two basic
\* blocks have the same label, however many if and while statements the body has.
C8_BlockLabelsUnique ==
    \A c \in 1..Len(irOut) :
        irOut[c].result.success =>
            \A f \in 1..Len(irOut[c].functions) :
                LET blocks == irOut[c].functions[f].basicBlocks
                IN \A b1, b2 \in 1..Len(blocks) :
                       blocks[b1].name = blocks[b2].name => b1 = b2

foldedOpcodes == {"add", "sub", "mul"}

\* the integer a literal operand spells: the operand without a "," appended to it
literalValues(operand) ==
    {n \in 0..MaxLiteral : operand \in {<<ToString(n)>>, <<ToString(n), ",">>}}

applyOpcode(opcode, m, n) ==
    CASE opcode = "add" -> m + n [] opcode = "sub" -> m - n [] opcode = "mul" -> m * n

\* the ways a comment may spell an operand
operandSpellings == {""} \cup {ToString(n) : n \in 0..MaxLiteral}
                         \cup {ToString(n) \o "," : n \in 0..MaxLiteral}

\* the "Constant folded" comments on an instruction of this opcode that record this value
foldedComments(opcode, value) ==
    {"Constant folded: " \o a \o " " \o opcode \o " " \o b \o " = " \o value :
        a, b \in operandSpellings}

foldedValues ==
    {"NaN"} \cup {ToString(applyOpcode(opcode, m, n)) :
                     opcode \in foldedOpcodes, m, n \in 0..MaxLiteral}

isFoldedComment(instr) ==
    \E opcode \in foldedOpcodes, value \in foldedValues :
        instr.comment \in foldedComments(opcode, value)

\* C19: after a successful generate call with optimizations, an instruction
\* that carries a "Constant folded" comment is an add, sub or mul whose two
\* value operands are integer literals, and the value the comment records is
\* the integer the opcode gives for these two literals.
C19_FoldedCommentOnLiteralsWithResult ==
    \A c \in 1..Len(irOut) :
        (irOut[c].optimizations /\ irOut[c].result.success) =>
            \A f \in 1..Len(irOut[c].functions) :
                \A instr \in instructionsOf(irOut[c].functions[f]) :
                    isFoldedComment(instr) =>
                        /\ instr.opcode \in foldedOpcodes
                        /\ Len(instr.operands) = 3
                        /\ \E m \in literalValues(instr.operands[2]),
                              n \in literalValues(instr.operands[3]) :
                               instr.comment \in
                                   foldedComments(instr.opcode,
                                                  ToString(applyOpcode(instr.opcode, m, n)))


\* Lowering the statement with these wrapping statements from the block cur
\* of a function that has n blocks: the block in which the lowering ends, the
\* number of blocks then, and for every loop body and branch lowered on the
\* way the block in which its lowering ended with the label it has to reach.
RECURSIVE Lowered(_, _, _)
Lowered(wraps, cur, n) ==
    IF wraps = <<>> THEN [cur |-> cur, n |-> n, ends |-> {}]
    ELSE LET w == Head(wraps)
             \* if: n+1 if.then, n+2 if.else, n+3 if.end
             \* while: n+1 while.header, n+2 while.body, n+3 while.end
             inner == Lowered(Tail(wraps), IF w = 1 THEN n + 1 ELSE n + 2, n + 3)
         IN [cur |-> n + 3, n |-> inner.n,
             ends |-> inner.ends \cup
                 (CASE w = 1 -> {<<inner.cur, "if.end">>, <<n + 2, "if.end">>}
                    [] w = 2 -> {<<n + 1, "if.end">>, <<inner.cur, "if.end">>}
                    [] w = 3 -> {<<inner.cur, "while.header">>})]

\* the block ends with a branch to the label or with a ret
EndsWith(block, label) ==
    /\ Len(block.instructions) > 0
    /\ LET last == block.instructions[Len(block.instructions)]
       IN \/ last.opcode = "ret"
          \/ last.opcode = "br" /\ last.operands = branchTo(label).operands

\* C23: in the function a successful generate call makes of `fn f(x: i32) ->
\* i32 { S }`, S one statement inside up to MaxNest if / while statements,
\* the block in which the lowering of every loop body ends closes with a
\* branch to while.header or a ret, and the block in which the lowering of
\* every if branch ends closes with a branch to if.end or a ret.
C23_BodyAndBranchEndsClosed ==
    \A c \in 1..Len(irOut) :
        (irOut[c].result.success /\ irIn.form = "fn(x)" /\ Len(irIn.stmts) = 1) =>
            LET blocks == irOut[c].functions[1].basicBlocks
            IN \A e \in Lowered(irIn.stmts[1].wraps, 1, 1).ends :
                   /\ e[1] <= Len(blocks)
                   /\ EndsWith(blocks[e[1]], e[2])

declarationKinds == {1, 2, 6, 7, 8}

\* the IR type of the type the analyzer records for the variable of a declaration
recordedType(node) == mapTypeToLLVM(Sem_visitVariableDeclaration(Analyzer_new, node).type)

\* C24: in the function a successful generate call makes of `fn main() {
\* statements }`, the statements not nested, the alloca of every variable
\* declaration and the store that initializes it use the IR type of the type
\* the analyzer records for the variable: the annotation, or the type of the
\* initializer when there is none.
C24_AllocaTypeIsAnalyzedType ==
    \A c \in 1..Len(irOut) :
        (/\ irOut[c].result.success /\ irIn.form = "fn"
         /\ \A i \in 1..Len(irIn.stmts) : irIn.stmts[i].wraps = <<>>) =>
            LET isDeclaration(d) == d.stmt \in declarationKinds
                isAlloca(instr) == instr.opcode = "alloca"
                declarations == SelectSeq(irIn.stmts, isDeclaration)
                instructions == irOut[c].functions[1].basicBlocks[1].instructions
                allocas == SelectSeq(instructions, isAlloca)
            IN /\ Len(allocas) = Len(declarations)
               /\ \A i \in 1..Len(allocas) :
                      LET T == recordedType(IRSimple(declarations[i].stmt, 2, 5))
                      IN /\ allocas[i].operands = << <<T>> >>
                         /\ \A j \in 1..Len(instructions) :
                                (/\ instructions[j].opcode = "store"
                                 /\ instructions[j].operands[4] = allocas[i].result) =>
                                    /\ instructions[j].operands[1] = <<T>>
                                    /\ instructions[j].operands[3] = <<T \o "*">>

\* the statement reads x: in the condition of a statement that wraps it, or itself
ReadsX(d) == d.wraps # <<>> \/ d.stmt \in {2, 3, 4, 5, 7}

UndefinedX(errors) ==
    \E i \in 1..Len(errors) : /\ errors[i].type = "IRGenerationError"
                              /\ errors[i].message = "Undefined variable: x"

\* C25: of `fn f(x: i32) -> i32 { } fn main() { S }`, S a statement that
\* reads x, generate reports the IRGenerationError "Undefined variable: x":
\* x is no parameter and no variable of main, and the parameter of the
\* earlier function f does not satisfy the lookup.
C25_UndefinedInLaterFunction ==
    \A c \in 1..Len(irOut) :
        (irIn.form = "fn(x),fn" /\ Len(irIn.stmts) = 1 /\ ReadsX(irIn.stmts[1])) =>
            /\ ~irOut[c].result.success
            /\ UndefinedX(irOut[c].result.errors)
----------------------------------------------------------------------------
(* Properties of the lexer, under SpecLex *)

\* token j of the list starts in the column right after the one-character
\* token i, on the same line
Adjoins(tokens, i, j) ==
    /\ tokens[j].line = tokens[i].line
    /\ tokens[j].column = tokens[i].column + 1

twoCharacterOperators == {"==", "!=", "<=", ">=", "&&", "||", "->"}

\* C3: `&` immediately followed by the keyword `mut` is one borrow-mutable
\* token: the token list never holds a plain borrow token `&` with the keyword
\* token `mut` starting in the very next column.
C3_BorrowMutIsOneToken ==
    \A i \in 1..(Len(lexer.tokens) - 1) :
        ~(/\ lexer.tokens[i].type = operators["&"]
          /\ lexer.tokens[i + 1].type = "KEYWORD"
          /\ lexer.tokens[i + 1].value = "mut"
          /\ Adjoins(lexer.tokens, i, i + 1))

\* C4: each of `==`, `!=`, `<=`, `>=`, `&&`, `||`, `->` in the source is one
\* token: the token list never holds two one-character operator or delimiter
\* tokens in consecutive columns whose characters spell one of them, so never
\* MINUS directly followed by GREATER_THAN.
C4_TwoCharacterOperatorIsOneToken ==
    \A i \in 1..(Len(lexer.tokens) - 1) :
        LET first == lexer.tokens[i]
            second == lexer.tokens[i + 1]
            single == {operators[x] : x \in {y \in DOMAIN operators : Len(y) = 1}}
                      \cup {delimiters[x] : x \in {y \in DOMAIN delimiters : Len(y) = 1}}
        IN ~(/\ first.type \in single
             /\ second.type \in single
             /\ Adjoins(lexer.tokens, i, i + 1)
             /\ first.value \o second.value \in twoCharacterOperators)

\* the line and the column of character i of a source text: a newline ends
\* its line, and the columns of a line count from 1
LineOf(source, i) == 1 + Cardinality({j \in 1..(i - 1) : source[j] = "\n"})

ColumnOf(source, i) ==
    LET newlines == {j \in 1..(i - 1) : source[j] = "\n"}
    IN IF newlines = {} THEN i
       ELSE i - CHOOSE j \in newlines : \A k \in newlines : k <= j

\* an iteration of the loop moves on in the source
LexMovesOn ==
    (lexPc = "scan" /\ lexPc' = "scan") => lexer'.position > lexer.position

\* an iteration keeps the tokens and the errors it found, and one whose scan
\* throws adds the thrown message as one LexicalError and goes on behind the
\* character at which the scan stopped
LexRecordsError ==
    (lexPc = "scan" /\ lexPc' = "scan") =>
        LET start == skipWhitespace(lexer)
            tried == scanOne(start)
            n == Len(lexer.errors)
        IN /\ SubSeq(lexer'.tokens, 1, Len(lexer.tokens)) = lexer.tokens
           /\ SubSeq(lexer'.errors, 1, n) = lexer.errors
           /\ IF start.position < Len(lexer.source) /\ tried.thrown # NoError
              THEN /\ Len(lexer'.errors) = n + 1
                   /\ lexer'.errors[n + 1].type = "LexicalError"
                   /\ lexer'.errors[n + 1].message = tried.thrown
                   /\ lexer'.tokens = tried.lx.tokens
                   /\ \/ lexer'.position = tried.lx.position + 1
                      \/ tried.lx.position = Len(lexer.source)
              ELSE Len(lexer'.errors) = n

\* the character an "Unexpected character" error names is the one at its position
LexErrorNamesCharacter ==
    \A e \in 1..Len(lexer.errors) :
        \A i \in 1..Len(lexer.source) :
            (/\ lexer.errors[e].message = "Unexpected character: '" \o lexer.source[i] \o "'"
             /\ LineOf(lexer.source, i) = lexer.errors[e].line)
            => \E j \in 1..Len(lexer.source) :
                   /\ lexer.source[j] = lexer.source[i]
                   /\ LineOf(lexer.source, j) = lexer.errors[e].line
                   /\ ColumnOf(lexer.source, j) = lexer.errors[e].column

\* the returned token list ends with its only EOF token
LexEndsWithOneEOF ==
    lexPc = "returned" =>
        /\ lexer.tokens # <<>>
        /\ \A i \in 1..Len(lexer.tokens) :
               lexer.tokens[i].type = "EOF" <=> i = Len(lexer.tokens)

\* the loop runs while position < source.length and position never passes
\* source.length: with LexMovesOn, a call makes at most source.length iterations
LexInBounds == lexPc = "scan" => lexer.position <= Len(lexer.source)

\* C12: tokenize returns for every source: each iteration of its loop moves on
\* in the source, which bounds the iterations by the length of the source; an
\* iteration whose scan throws records the error and goes on behind the
\* offending character; and the token list returned has exactly one EOF
\* token, its last.
C12_TokenizeReturns ==
    /\ [][LexMovesOn /\ LexRecordsError]_vars
    /\ [](LexInBounds /\ LexErrorNamesCharacter /\ LexEndsWithOneEOF)

\* `@ x` tokenized: the error is recorded and the identifier behind it is a token
C12_Reached ==
    /\ lexPc = "returned"
    /\ lexer.source = <<"@", " ", "x">>
    /\ Len(lexer.errors) = 1
    /\ Len(lexer.tokens) = 2 /\ lexer.tokens[1].type = "IDENTIFIER"

\* character i of the source is where the token starts: an opening quote for
\* a string, and for every other token the first character of its lexeme,
\* which the source spells from there
StartsAt(source, token, i) ==
    IF token.type = "STRING" THEN source[i] = "\""
    ELSE /\ i + Len(token.value) - 1 <= Len(source)
         /\ Concat(SubSeq(source, i, i + Len(token.value) - 1)) = token.value

\* C13: every token, EOF included, has line >= 1 and column >= 1, and the line
\* and column of every other token are those of its first character in the
\* source, lines and columns counted from 1 and a newline starting a new line.
C13_TokenPositions ==
    \A t \in 1..Len(lexer.tokens) :
        LET token == lexer.tokens[t]
        IN /\ token.line >= 1 /\ token.column >= 1
           /\ token.type # "EOF" =>
                  \E i \in 1..Len(lexer.source) :
                      /\ LineOf(lexer.source, i) = token.line
                      /\ ColumnOf(lexer.source, i) = token.column
                      /\ StartsAt(lexer.source, token, i)

\* a token that starts behind a newline and a space: at line 2, column 2
C13_Reached ==
    /\ lexPc = "returned"
    /\ \E t \in 1..Len(lexer.tokens) :
           /\ lexer.tokens[t].type = "IDENTIFIER"
           /\ lexer.tokens[t].line = 2 /\ lexer.tokens[t].column = 2

\* C14: a string literal that the end of input cuts off gives one LexicalError
\* "Unterminated string literal", and the line and column of that error are
\* those of the quote that opens the string. (A source with one quote and no
\* comment has such a literal.)
C14_UnterminatedStringAtOpeningQuote ==
    lexPc = "returned" =>
        LET source == lexer.source
            errors == lexer.errors
            hits == DiagnosticsWith(errors, "LexicalError", "Unterminated string literal")
            quotes == {i \in 1..Len(source) : source[i] = "\""}
        IN /\ (Cardinality(quotes) = 1 /\ \A i \in 1..Len(source) : source[i] # "/")
                  => Cardinality(hits) = 1
           /\ \A e \in hits :
                  \E i \in quotes : /\ LineOf(source, i) = errors[e].line
                                    /\ ColumnOf(source, i) = errors[e].column

\* the characters of the lexeme of a token, read from the source where the
\* token stands: a string's lexeme is what is between its quotes (the sources
\* here have no escapes), EOF has none
LexemeOf(source, token) ==
    IF token.type = "EOF" THEN <<>>
    ELSE LET i == CHOOSE j \in 1..Len(source) :
                      /\ LineOf(source, j) = token.line
                      /\ ColumnOf(source, j) = token.column
         IN IF token.type = "STRING" THEN SubSeq(source, i + 1, i + Len(token.value))
            ELSE SubSeq(source, i, i + Len(token.value) - 1)

\* tokens.map(t => t.value).join(' ')
RECURSIVE JoinLexemes(_, _)
JoinLexemes(source, tokens) ==
    IF tokens = <<>> THEN <<>>
    ELSE IF Len(tokens) = 1 THEN LexemeOf(source, tokens[1])
    ELSE LexemeOf(source, tokens[1]) \o <<" ">> \o JoinLexemes(source, Tail(tokens))

\* C15: the lexemes of the tokens of a source, joined with single spaces and
\* tokenized again, give tokens of the same kinds and lexemes in the same
\* order, also for a source with string literals.
C15_RetokenizeJoinedLexemes ==
    lexPc = "returned" =>
        LET again == tokenize(Lexer_new, JoinLexemes(lexer.source, lexer.tokens)).tokens
        IN /\ \A t \in 1..Len(lexer.tokens) :
                  Concat(LexemeOf(lexer.source, lexer.tokens[t])) =
                      (IF lexer.tokens[t].type = "EOF" THEN "" ELSE lexer.tokens[t].value)
           /\ Len(again) = Len(lexer.tokens)
           /\ \A t \in 1..Len(again) : /\ again[t].type = lexer.tokens[t].type
                                       /\ again[t].value = lexer.tokens[t].value

\* the last character of the block comment that opens a source text: the "/"
\* of the first "*/" after the opening, or the last character of the text
CommentEnd(source) ==
    LET closings == {i \in 3..(Len(source) - 1) : source[i] = "*" /\ source[i + 1] = "/"}
    IN IF closings = {} THEN Len(source)
       ELSE 1 + CHOOSE i \in closings : \A j \in closings : i <= j

\* C30: of a source text that opens with `/*`, no character up to and
\* including the first following `*/`, or up to the end of the text when no
\* `*/` follows, is where a token starts or where a diagnostic is reported.
C30_BlockCommentSkipped ==
    (/\ lexPc = "returned" /\ Len(lexer.source) >= 2
     /\ lexer.source[1] = "/" /\ lexer.source[2] = "*") =>
        \A i \in 1..CommentEnd(lexer.source) :
            /\ \A t \in 1..Len(lexer.tokens) :
                   lexer.tokens[t].type # "EOF" =>
                       ~(/\ lexer.tokens[t].line = LineOf(lexer.source, i)
                         /\ lexer.tokens[t].column = ColumnOf(lexer.source, i))
            /\ \A e \in 1..Len(lexer.errors) :
                   ~(/\ lexer.errors[e].line = LineOf(lexer.source, i)
                     /\ lexer.errors[e].column = ColumnOf(lexer.source, i))

----------------------------------------------------------------------------
(* Properties of a compile call, under Spec *)

stageOrder == <<"lexer", "parser", "semantic", "ir">>

\* C1: after a compile call the stages that ran are lexer, parser, semantic
\* analyzer, IR generator in this order up to the first one that reported an
\* error diagnostic: every stage before the last one run reported none, the
\* run stops short of the IR generator only at a stage that reported one, the
\* products of the stages not run are absent and the tokens are kept.
C1_StagesRunInOrderUntilFirstError ==
    stagesRun # <<>> =>
        LET n == Len(stagesRun)
            results == app.compilationResults
        IN /\ n <= Len(stageOrder)
           /\ \A i \in 1..n : stagesRun[i].stage = stageOrder[i]
           /\ \A i \in 1..(n - 1) : stagesRun[i].errors = 0
           /\ n < Len(stageOrder) => stagesRun[n].errors > 0
           /\ results.tokens = lexer.tokens
           /\ n < 2 => results.ast = NoNode
           /\ n < 3 => results.semantic = NoNode
           /\ n < 4 => results.ir = Null


\* the last action was a compile call on this source text
Compiled(source) == stagesRun # <<>> /\ app.currentSourceCode = source

\* C16: after a parse error at a token that is itself one of the keywords fn,
\* let, if, while, return the synchronizer skips no token and the statement
\* starting at that keyword is parsed: of `let let x = 1;` the parser reports
\* the one error at the second `let` (line 1, column 5), parses the
\* declaration of x that starts there and ends at the EOF token.
C16_SynchronizeKeepsOffendingKeyword ==
    Compiled(recoverySource) =>
        /\ Len(stagesRun) >= 2
        /\ Len(parser.errors) = 1
        /\ parser.errors[1].type = "ParseError"
        /\ parser.errors[1].line = 1 /\ parser.errors[1].column = 5
        /\ parser.current = Len(parser.tokens) - 1
        /\ app.compilationResults.ast =
               ProgramNode(<<VariableDeclarationNode("x", FALSE, Null,
                                                     <<IntLit(1, 1, 13)>>, 1, 5)>>)

\* C17: parse builds the tree the precedence ladder fixes: `a - b - c` is
\* (a - b) - c, `a = b = c` is a = (b = c), and `2 + 3 * 4` is 2 + (3 * 4).
C17_PrecedenceLadder ==
    /\ Compiled(leftSource) =>
           app.compilationResults.ast =
               ProgramNode(<<BinaryOperationNode("-",
                                 BinaryOperationNode("-", Ident("a", 1, 1), Ident("b", 1, 5),
                                                     1, 3),
                                 Ident("c", 1, 9), 1, 7)>>)
    /\ Compiled(rightSource) =>
           app.compilationResults.ast =
               ProgramNode(<<AssignmentNode(Ident("a", 1, 1),
                                 AssignmentNode(Ident("b", 1, 5), Ident("c", 1, 9), 1, 7),
                                 1, 3)>>)
    /\ Compiled(tighterSource) =>
           app.compilationResults.ast =
               ProgramNode(<<BinaryOperationNode("+", IntLit(2, 1, 1),
                                 BinaryOperationNode("*", IntLit(3, 1, 5), IntLit(4, 1, 9),
                                                     1, 7),
                                 1, 3)>>)

RECURSIVE Positioned(_, _)
\* every node of the tree has the line and column of one of the tokens
Positioned(node, tokens) ==
    /\ \E t \in 1..Len(tokens) : /\ node.line = tokens[t].line
                                 /\ node.column = tokens[t].column
    /\ \A i \in 1..Len(node.children) : Positioned(node.children[i], tokens)

\* C18: every node of the tree parse produces, other than the Program root,
\* has the line and column of a token of the input; for the function
\* declaration of functionSource this includes its FunctionName, Parameters,
\* Parameter, ParameterName, ParameterType, ReturnType, VariableName, Mutable
\* and VariableType nodes.
C18_NodesHaveTokenPositions ==
    (Compiled(functionSource) /\ Len(stagesRun) >= 2) =>
        LET ast == app.compilationResults.ast
        IN /\ ast.type = "Program"
           /\ Len(ast.children) = 1
           /\ ast.children[1].type = "FunctionDeclaration"
           /\ \A i \in 1..Len(ast.children) :
                  Positioned(ast.children[i], app.compilationResults.tokens)

diagnosticKinds == {"LexicalError", "ParseError", "SemanticError", "TypeError",
                    "OwnershipError", "UnusedVariable", "IRGenerationError", "Warning"}

\* C20: after a compile call every diagnostic in the error list and in the
\* warning list of the results has its kind in the closed set of diagnostic
\* kinds, whichever stage failed.
C20_DiagnosticKindsClosed ==
    stagesRun # <<>> =>
        LET results == app.compilationResults
        IN /\ \A i \in 1..Len(results.errors) : results.errors[i].type \in diagnosticKinds
           /\ \A i \in 1..Len(results.warnings) : results.warnings[i].type \in diagnosticKinds

\* C28: in a compile call whose source has no lexical error, so that parse
\* is called on tokens that end with EOF, parse returns: the call does not
\* end in an exception, the result holds a Program node and the parser is
\* left at the EOF token.
C28_ParseReturnsProgram ==
    Len(stagesRun) >= 2 =>
        /\ \A i \in 1..Len(app.compilationResults.errors) :
               app.compilationResults.errors[i].message # StackOverflow
        /\ app.compilationResults.ast.type = "Program"
        /\ parser.current = Len(parser.tokens) - 1

\* C29: of `fn f(){ ) x; }` the parser reports the one error, at the stray
\* `)` of the body (line 1, column 9), and no further one at the closing
\* brace; the statement `x;` of the body is no direct child of the Program
\* node, whose children are function declarations only.
C29_BodyStatementsStayInBody ==
    Compiled(bodyErrorSource) =>
        /\ Len(stagesRun) >= 2
        /\ Len(parser.errors) = 1
        /\ parser.errors[1].type = "ParseError"
        /\ parser.errors[1].line = 1 /\ parser.errors[1].column = 9
        /\ app.compilationResults.ast.type = "Program"
        /\ \A i \in 1..Len(app.compilationResults.ast.children) :
               app.compilationResults.ast.children[i].type = "FunctionDeclaration"

====
